---- MODULE Spec2Model ----
(***************************************************************************)
(* Reader/writer locks of rediz-lock over a sharded key/value store.       *)
(*                                                                         *)
(* The KV server state is one cell per (shard, key): the write slot        *)
(* <prefix>:write:<key> with its TTL and the read set <prefix>:read:<key>  *)
(* with its TTL, plus the distributed-lock flag <prefix>:dflag:<key>.      *)
(* Every Lua script is an operator from a cell to a cell and a reply.      *)
(* Every API call (readLock, writeLock) is a task whose steps are the      *)
(* points at which the JavaScript suspends: a script call, a backoff       *)
(* sleep, a flag read or write.                                            *)
(*                                                                         *)
(* Strings are sequences of character codes, so that the lexicographic     *)
(* comparison of tokens is computed and not assumed.                       *)
(***************************************************************************)
EXTENDS Integers, Sequences, FiniteSets, TLC

\* ------------------------------------------------------------------ bounds
NumShards == 2
MaxWaitMs == 5
NumScenarios == 7
\* maxWaitTime (ms) of the writer whose whole backoff sequence is followed
MaxBackoffMs == 700
\* lock sets of the application: set 1 and its dependent sets 2 .. NumSets
NumSets == 3
\* how often a lock set is asked again for a key it holds
MaxRelock == 2

\* ------------------------------------------------------- program constants
initialWaitTime == 5
maxRetryWaitTime == 1000
defaultConflictPriority == 50
readTokenPriority == 0
minDistributedLockFlagExpireTime == 5
maxDistributedLockFlagExpireTime == 60

Shards == 0 .. (NumShards - 1)
Keys == {"k1", "k2", "k3"}
Req == 1 .. 4

\* the shard the KV client assigns to a key name (consistent per key)
ShardOfKey(k) == IF k = "k1" THEN 0 ELSE 1 % NumShards

\* ---------------------------------------------------------------- strings
CharZero == 48
BaseA == <<97>>
BaseB == <<98>>
NoToken == <<>>

RECURSIVE Dec(_)
\* JavaScript's '' + n for a non-negative integer
Dec(n) == IF n < 10 THEN <<CharZero + n>> ELSE Dec(n \div 10) \o <<CharZero + (n % 10)>>

RECURSIVE StrLess(_, _)
\* JavaScript's a < b on strings: code-unit lexicographic, a proper prefix is smaller
StrLess(a, b) ==
    IF b = <<>> THEN FALSE
    ELSE IF a = <<>> THEN TRUE
    ELSE IF Head(a) # Head(b) THEN Head(a) < Head(b)
    ELSE StrLess(Tail(a), Tail(b))

\* mutant of priStr: the priority is not padded to two digits
priStrUnpadded(priority) == Dec(priority)

priStr(priority) == IF priority < 10 THEN <<CharZero>> \o Dec(priority) ELSE Dec(priority)

\* Locker._createToken with debugTokens = false
createToken(tokenBase, priority, ctr) == priStr(priority) \o tokenBase \o Dec(ctr)

\* ------------------------------------------------------------ the KV cells
\* wttl / rttl: -2 key absent, -1 key without expiry, n >= 0 seconds set by EX / expire
EmptyCell == [write |-> NoToken, wttl |-> -2, read |-> {}, rttl |-> -2]

NoList == {}
Reply(code, tok, list) == [code |-> code, tok |-> tok, list |-> list]

\* mutant of readLock.lua: the write slot is not consulted
readLockIgnoringWriter(c, token, ttl) ==
    LET c2 == [c EXCEPT !.read = c.read \cup {token},
                        !.rttl = IF ttl # 0 THEN ttl ELSE IF c.read = {} THEN -1 ELSE c.rttl]
    IN  [cell |-> c2, reply |-> Reply(1, NoToken, c2.read)]

\* readLock.lua
readLockScript(c, token, ttl) ==
    IF c.write # NoToken
    THEN [cell |-> c, reply |-> Reply(0, c.write, NoList)]
    ELSE LET c2 == [c EXCEPT !.read = c.read \cup {token},
                             !.rttl = IF ttl # 0 THEN ttl
                                      ELSE IF c.read = {} THEN -1 ELSE c.rttl]
         IN  [cell |-> c2, reply |-> Reply(1, NoToken, c2.read)]

\* mutant of writeLock.lua: reports success although readers are present
writeLockIgnoringReaders(c, token, ttl) ==
    IF c.write # NoToken
    THEN [cell |-> c, reply |-> Reply(0, c.write, NoList)]
    ELSE [cell |-> [c EXCEPT !.write = token, !.wttl = IF ttl # 0 THEN ttl ELSE -1],
          reply |-> Reply(1, NoToken, NoList)]

\* writeLock.lua
writeLockScript(c, token, ttl) ==
    IF c.write # NoToken
    THEN [cell |-> c, reply |-> Reply(0, c.write, NoList)]
    ELSE LET c2 == [c EXCEPT !.write = token, !.wttl = IF ttl # 0 THEN ttl ELSE -1]
         IN  IF c2.read # {}
             THEN [cell |-> c2, reply |-> Reply(2, NoToken, c2.read)]
             ELSE [cell |-> c2, reply |-> Reply(1, NoToken, NoList)]

\* mutant of writeLockRetryScript: a slot held by another token is overwritten
\* while the reply still names the other holder
writeLockRetryScriptOverwrite(c, token, ttl) ==
    IF c.write = token \/ c.write = NoToken
    THEN LET c1 == IF c.write = NoToken
                   THEN [c EXCEPT !.write = token, !.wttl = -1] ELSE c
             c2 == IF ttl # 0 THEN [c1 EXCEPT !.wttl = ttl] ELSE c1
         IN  IF c2.read # {}
             THEN [cell |-> c2, reply |-> Reply(2, NoToken, c2.read)]
             ELSE [cell |-> c2, reply |-> Reply(1, NoToken, NoList)]
    ELSE [cell |-> [c EXCEPT !.write = token], reply |-> Reply(0, c.write, NoList)]

\* writeLockRetry.lua (the script proper, lines 8-23)
writeLockRetryScript(c, token, ttl) ==
    IF c.write = token \/ c.write = NoToken
    THEN LET c1 == IF c.write = NoToken
                   THEN [c EXCEPT !.write = token, !.wttl = -1] ELSE c
             c2 == IF ttl # 0 THEN [c1 EXCEPT !.wttl = ttl] ELSE c1
         IN  IF c2.read # {}
             THEN [cell |-> c2, reply |-> Reply(2, NoToken, c2.read)]
             ELSE [cell |-> c2, reply |-> Reply(1, NoToken, NoList)]
    ELSE [cell |-> c, reply |-> Reply(0, c.write, NoList)]

\* readLockRelease: srem, then smembers (an emptied set is deleted by the server)
readLockReleaseScript(c, token) ==
    LET rest == c.read \ {token}
        c2 == [c EXCEPT !.read = rest, !.rttl = IF rest = {} THEN -2 ELSE c.rttl]
    IN  [cell |-> c2, reply |-> Reply(1, NoToken, rest)]

\* mutant of writeLockRelease.lua: deletes the slot whoever holds it
writeLockReleaseAny(c, token) ==
    IF c.write # NoToken
    THEN [cell |-> [c EXCEPT !.write = NoToken, !.wttl = -2], reply |-> Reply(1, NoToken, NoList)]
    ELSE [cell |-> c, reply |-> Reply(0, NoToken, NoList)]

\* writeLockRelease.lua
writeLockReleaseScript(c, token) ==
    IF c.write = token /\ token # NoToken
    THEN [cell |-> [c EXCEPT !.write = NoToken, !.wttl = -2], reply |-> Reply(1, NoToken, NoList)]
    ELSE [cell |-> c, reply |-> Reply(0, NoToken, NoList)]

\* the value of redis.call("sismember", ...) as the Lua condition sees it: the
\* reply is the number 0 or 1, and in Lua every number is true
LuaTruthOfSismember(c, token) == TRUE

\* readLockHeartbeat
readLockHeartbeatScript(c, token, ttl) ==
    IF Cardinality(c.read) > 0
    THEN IF LuaTruthOfSismember(c, token)
         THEN [cell |-> [c EXCEPT !.rttl = ttl], reply |-> Reply(1, NoToken, NoList)]
         ELSE [cell |-> c, reply |-> Reply(3, NoToken, NoList)]
    ELSE [cell |-> c, reply |-> Reply(3, NoToken, NoList)]

\* writeLockHeartbeat.lua
writeLockHeartbeatScript(c, token, ttl) ==
    IF c.write # NoToken
    THEN IF c.write = token
         THEN [cell |-> [c EXCEPT !.wttl = ttl], reply |-> Reply(1, NoToken, NoList)]
         ELSE [cell |-> c, reply |-> Reply(0, c.write, NoList)]
    ELSE [cell |-> c, reply |-> Reply(3, NoToken, NoList)]


\* --------------------------------------------------------- option bags
\* One option bag per call.  maxWaitMs is options.maxWaitTime * 1000;
\* after = r means the call is made once call r holds its lock (a lock set
\* that already holds one key and asks for the next); afterDone is the set of
\* calls that have returned their lock or failed before this one is made.
\* faults: the shard of the call may be unavailable or answer with an error.
\* What the owner does with the handle: relocks (LockSet.readLock on the held
\* key, that many times), setWrite (LockSet.writeLock on the held key), upgrade
\* (handle.upgrade with options.onError), force (handle.forceRelease).
NoCall == [op |-> "none", key |-> "k1", distributed |-> "off", enableDistributedAuto |-> "undef",
           resolveConflicts |-> FALSE, conflictPriority |-> defaultConflictPriority,
           tokenBase |-> BaseA, maxWaitMs |-> 0, lockTimeout |-> 0, heartbeat |-> FALSE,
           after |-> 0, afterDone |-> {}, faults |-> FALSE,
           relocks |-> 0, setWrite |-> FALSE, upgrade |-> "none", force |-> FALSE,
           releaseFaults |-> FALSE, lockSet |-> 0, batch |-> FALSE, wrap |-> FALSE]

ReadCall(key, base, lockTimeout) ==
    [NoCall EXCEPT !.op = "read", !.key = key, !.tokenBase = base, !.maxWaitMs = MaxWaitMs,
                   !.lockTimeout = lockTimeout, !.heartbeat = (lockTimeout # 0)]

WriteCall(key, base, lockTimeout) ==
    [NoCall EXCEPT !.op = "write", !.key = key, !.tokenBase = base, !.maxWaitMs = MaxWaitMs,
                   !.lockTimeout = lockTimeout, !.heartbeat = (lockTimeout # 0)]

Resolving(call, priority) ==
    [call EXCEPT !.resolveConflicts = TRUE, !.conflictPriority = priority]

Scenario(n) ==
    CASE n = 1 -> \* a reader and two writers of one key, leases of one second
              <<[ReadCall("k1", BaseA, 1) EXCEPT !.maxWaitMs = 0, !.heartbeat = FALSE],
                [WriteCall("k1", BaseA, 1) EXCEPT !.heartbeat = FALSE],
                [WriteCall("k1", BaseB, 1) EXCEPT !.maxWaitMs = 0, !.heartbeat = FALSE],
                NoCall>>
      [] n = 2 -> \* two readers with different leases and a writer without lease
              <<[ReadCall("k1", BaseA, 2) EXCEPT !.maxWaitMs = 0],
                [ReadCall("k1", BaseB, 1) EXCEPT !.maxWaitMs = 0, !.heartbeat = FALSE],
                [WriteCall("k1", BaseB, 0) EXCEPT !.maxWaitMs = 0], NoCall>>
      [] n = 3 -> \* two conflict-resolving writers of equal priority and a reader
              <<Resolving(WriteCall("k1", BaseA, 0), defaultConflictPriority),
                Resolving(WriteCall("k1", BaseB, 0), defaultConflictPriority),
                [ReadCall("k1", BaseA, 0) EXCEPT !.maxWaitMs = 0], NoCall>>
      [] n = 4 -> \* the writer with the higher base asks with a better priority
              <<[Resolving(WriteCall("k1", BaseA, 1), defaultConflictPriority)
                    EXCEPT !.maxWaitMs = 0],
                Resolving(WriteCall("k1", BaseB, 1), 5), NoCall, NoCall>>
      [] n = 5 -> \* a distributed writer, a distributed reader and a normal reader
              <<[WriteCall("k1", BaseA, 0) EXCEPT !.distributed = "on"],
                [ReadCall("k1", BaseB, 0) EXCEPT !.distributed = "on", !.maxWaitMs = 0,
                                                 !.enableDistributedAuto = "false"],
                [ReadCall("k1", BaseB, 0) EXCEPT !.maxWaitMs = 0], NoCall>>
      [] n = 6 -> \* an automatic writer, a distributed reader that keeps the flag, a normal writer
              <<[WriteCall("k1", BaseA, 0) EXCEPT !.distributed = "auto"],
                [ReadCall("k1", BaseB, 0) EXCEPT !.distributed = "on", !.maxWaitMs = 0,
                                                 !.enableDistributedAuto = "true"],
                [WriteCall("k1", BaseB, 0) EXCEPT !.maxWaitMs = 0], NoCall>>
      [] n = 101 -> \* readers hold; a writer without patience fails and tries again later
              <<[ReadCall("k1", BaseA, 0) EXCEPT !.maxWaitMs = 0],
                [WriteCall("k1", BaseB, 0) EXCEPT !.maxWaitMs = 0, !.faults = TRUE],
                [WriteCall("k1", BaseB, 0) EXCEPT !.maxWaitMs = 0, !.afterDone = {1, 2}],
                [ReadCall("k1", BaseB, 0) EXCEPT !.faults = TRUE]>>
      [] n = 102 -> \* a patient writer while the lock changes hands
              <<[WriteCall("k1", BaseA, 0) EXCEPT !.maxWaitMs = 3 * MaxWaitMs],
                [WriteCall("k1", BaseB, 0) EXCEPT !.maxWaitMs = 0],
                [WriteCall("k1", BaseB, 1) EXCEPT !.maxWaitMs = 0, !.heartbeat = FALSE],
                NoCall>>
      [] n = 103 -> \* a distributed writer on faulty shards and a reader in its way
              <<[WriteCall("k1", BaseA, 0) EXCEPT !.distributed = "on", !.faults = TRUE],
                [ReadCall("k1", BaseB, 0) EXCEPT !.distributed = "on", !.maxWaitMs = 0,
                                                 !.enableDistributedAuto = "false"],
                NoCall, NoCall>>
      [] n = 104 -> \* locks without lease next to a reader with a lease
              <<[ReadCall("k1", BaseA, 0) EXCEPT !.maxWaitMs = 0],
                [ReadCall("k1", BaseB, 1) EXCEPT !.maxWaitMs = 0],
                [WriteCall("k1", BaseA, 0) EXCEPT !.maxWaitMs = 0], NoCall>>
      [] n = 201 -> \* a lock set asked MaxRelock more times for the key it read-locked
              <<[ReadCall("k1", BaseA, 0) EXCEPT !.relocks = MaxRelock],
                [WriteCall("k1", BaseB, 0) EXCEPT !.maxWaitMs = 0], NoCall, NoCall>>
      [] n = 202 -> \* LockSet.writeLock on a key the set holds as reader
              <<[ReadCall("k1", BaseA, 0) EXCEPT !.setWrite = TRUE, !.relocks = 1],
                [ReadCall("k1", BaseB, 0) EXCEPT !.maxWaitMs = 0], NoCall, NoCall>>
      [] n = 203 -> \* LockSet.writeLock on keys the set holds as writer
              <<[WriteCall("k1", BaseA, 0) EXCEPT !.distributed = "on", !.setWrite = TRUE,
                                                 !.relocks = 1, !.force = TRUE],
                [WriteCall("k2", BaseA, 0) EXCEPT !.setWrite = TRUE, !.maxWaitMs = 0],
                NoCall, NoCall>>
      [] n = 204 -> \* upgrade with the default onError next to another reader
              <<[ReadCall("k1", BaseA, 0) EXCEPT !.upgrade = "stop", !.relocks = 1,
                                                !.faults = TRUE],
                [ReadCall("k1", BaseB, 0) EXCEPT !.maxWaitMs = 0], NoCall, NoCall>>
      [] n = 205 -> \* the same with onError 'release'
              <<[ReadCall("k1", BaseA, 0) EXCEPT !.upgrade = "release", !.relocks = 1,
                                                !.faults = TRUE],
                [ReadCall("k1", BaseB, 0) EXCEPT !.maxWaitMs = 0], NoCall, NoCall>>
      [] n = 206 -> \* forceRelease of a read handle with several holders
              <<[ReadCall("k1", BaseA, 0) EXCEPT !.relocks = MaxRelock, !.force = TRUE],
                [WriteCall("k1", BaseB, 0) EXCEPT !.maxWaitMs = 0], NoCall, NoCall>>
      [] n = 207 -> \* upgrade and forceRelease of a write handle
              <<[WriteCall("k1", BaseA, 0) EXCEPT !.upgrade = "stop", !.relocks = 1,
                                                 !.force = TRUE, !.maxWaitMs = 0],
                NoCall, NoCall, NoCall>>
      [] n = 208 -> \* upgrade of a read handle while a writer asks for the key
              <<[ReadCall("k1", BaseA, 0) EXCEPT !.upgrade = "stop"],
                [WriteCall("k1", BaseB, 0) EXCEPT !.maxWaitMs = 0], NoCall, NoCall>>
      [] n = 209 -> \* two readers of one key with leases of two seconds and of one
              <<[ReadCall("k1", BaseA, 2) EXCEPT !.maxWaitMs = 0, !.heartbeat = FALSE],
                [ReadCall("k1", BaseB, 1) EXCEPT !.maxWaitMs = 0, !.heartbeat = FALSE,
                                                 !.after = 1],
                NoCall, NoCall>>
      [] n = 211 -> \* a read handle released while its upgrade is under way; failing releases
              <<[ReadCall("k1", BaseA, 0) EXCEPT !.upgrade = "stop", !.relocks = 1,
                                                !.force = TRUE, !.releaseFaults = TRUE,
                                                !.faults = TRUE],
                [ReadCall("k1", BaseB, 0) EXCEPT !.maxWaitMs = 0], NoCall, NoCall>>
      [] n = 212 -> \* a write handle whose release fails, and a writer after it
              <<[WriteCall("k1", BaseA, 0) EXCEPT !.force = TRUE, !.releaseFaults = TRUE,
                                                 !.setWrite = TRUE, !.maxWaitMs = 0],
                [WriteCall("k1", BaseB, 0) EXCEPT !.maxWaitMs = 0, !.afterDone = {1}],
                NoCall, NoCall>>
      [] n = 213 -> \* a distributed write handle whose release fails on some shard
              <<[WriteCall("k1", BaseA, 0) EXCEPT !.distributed = "on", !.force = TRUE,
                                                 !.releaseFaults = TRUE, !.maxWaitMs = 0],
                NoCall, NoCall, NoCall>>
      [] n = 301 -> \* a lock set of two read handles and two dependent sets of one
              <<[ReadCall("k1", BaseA, 0) EXCEPT !.lockSet = 1],
                [ReadCall("k2", BaseA, 0) EXCEPT !.lockSet = 1, !.relocks = 1, !.after = 1],
                [ReadCall("k1", BaseA, 0) EXCEPT !.lockSet = 2, !.after = 2],
                [ReadCall("k2", BaseA, 0) EXCEPT !.lockSet = 3, !.after = 3]>>
      [] n = 302 -> \* a lock set whose keys are named "10" and "9"
              <<[ReadCall("k1", BaseA, 0) EXCEPT !.lockSet = 1],
                [ReadCall("k2", BaseA, 0) EXCEPT !.lockSet = 1],
                NoCall, NoCall>>
      [] n = 303 -> \* a lock set of two read handles; another reader of k2 is in
                    \* the way of its upgrade
              <<[ReadCall("k1", BaseA, 0) EXCEPT !.lockSet = 1, !.relocks = 1],
                [ReadCall("k2", BaseA, 0) EXCEPT !.lockSet = 1, !.maxWaitMs = 0, !.after = 1],
                [ReadCall("k2", BaseB, 0) EXCEPT !.after = 2],
                NoCall>>
      [] n = 304 -> \* readLockSet(['k1', 'k2', 'k3'], {lockSet}) on a set that may
                    \* hold k1; the script of k3 may fail
              <<[ReadCall("k1", BaseA, 0) EXCEPT !.lockSet = 1],
                [ReadCall("k1", BaseA, 0) EXCEPT !.batch = TRUE],
                [ReadCall("k2", BaseA, 0) EXCEPT !.batch = TRUE],
                [ReadCall("k3", BaseA, 0) EXCEPT !.batch = TRUE, !.faults = TRUE]>>
      [] n = 305 -> \* writeLockSet(['k2', 'k2', 'k3'], {lockSet}) on a set that may
                    \* hold k1; the script of k3 may fail
              <<[WriteCall("k1", BaseA, 0) EXCEPT !.lockSet = 1],
                [WriteCall("k2", BaseA, 0) EXCEPT !.batch = TRUE],
                [WriteCall("k2", BaseA, 0) EXCEPT !.batch = TRUE],
                [WriteCall("k3", BaseA, 0) EXCEPT !.batch = TRUE, !.faults = TRUE]>>
      [] n = 306 -> \* readLockWrap and a distributed writeLockWrap, each followed
                    \* by a call on the same key that does not wait
              <<[ReadCall("k1", BaseA, 0) EXCEPT !.wrap = TRUE],
                [WriteCall("k1", BaseB, 0) EXCEPT !.maxWaitMs = 0, !.afterDone = {1}],
                [WriteCall("k2", BaseA, 0) EXCEPT !.wrap = TRUE, !.distributed = "on",
                                                 !.after = 2],
                [ReadCall("k2", BaseB, 0) EXCEPT !.maxWaitMs = 0, !.afterDone = {3}]>>
      [] n = 307 -> \* one lock set asked twice at once to read-lock a key it has not
              <<[ReadCall("k1", BaseA, 0) EXCEPT !.lockSet = 1],
                [ReadCall("k1", BaseA, 0) EXCEPT !.lockSet = 1],
                NoCall, NoCall>>
      [] n = 308 -> \* readLockSet(['k1', 'k2']) called on a lock set that may hold k1
              <<[ReadCall("k1", BaseA, 0) EXCEPT !.lockSet = 1],
                [ReadCall("k1", BaseA, 0) EXCEPT !.batch = TRUE, !.lockSet = 2],
                [ReadCall("k2", BaseA, 0) EXCEPT !.batch = TRUE, !.lockSet = 2],
                NoCall>>
      [] n = 401 -> \* a writer that waits long while the key changes hands
              <<[WriteCall("k1", BaseA, 0) EXCEPT !.maxWaitMs = MaxBackoffMs, !.after = 2],
                [WriteCall("k1", BaseB, 0) EXCEPT !.maxWaitMs = 0],
                [WriteCall("k1", BaseB, 0) EXCEPT !.maxWaitMs = 0, !.afterDone = {2}],
                NoCall>>
      [] n = 402 -> \* two resolving writers with leases behind a reader
              <<[ReadCall("k1", BaseA, 0) EXCEPT !.maxWaitMs = 0],
                [Resolving(WriteCall("k1", BaseB, 1), defaultConflictPriority)
                    EXCEPT !.heartbeat = FALSE],
                [Resolving(WriteCall("k1", BaseA, 1), defaultConflictPriority)
                    EXCEPT !.heartbeat = FALSE],
                NoCall>>
      [] n = 403 -> \* a writer behind a reader while another reader keeps asking
              <<[ReadCall("k1", BaseA, 0) EXCEPT !.maxWaitMs = 0],
                WriteCall("k1", BaseB, 0),
                ReadCall("k1", BaseB, 0),
                NoCall>>
      [] OTHER -> \* two lock sets, each holding one key and asking for the other's
              <<WriteCall("k1", BaseA, 0), WriteCall("k2", BaseB, 0),
                [Resolving(WriteCall("k2", BaseA, 0), defaultConflictPriority) EXCEPT !.after = 1],
                [Resolving(WriteCall("k1", BaseB, 0), defaultConflictPriority) EXCEPT !.after = 2]>>

\* ------------------------------------------------------------------ state
VARIABLES
    kv,            \* [shard][key] -> cell
    dflag,         \* [shard][key] -> TTL of the distributed-lock flag, -2 when absent
    tokenCtr,      \* Locker.tokenCtr
    task,          \* [call] -> the local variables of the call and of its lock handle
    scenario,      \* which option bags the calls use
    last,          \* the last script call: arguments, cell before and after, reply
    leaseExpired,  \* some lock key has expired on the server
    lockSet        \* the lock sets of the application and the set operation in progress

vars == <<kv, dflag, tokenCtr, task, scenario, last, leaseExpired, lockSet>>

Opt(r) == Scenario(scenario)[r]

NullHolder == [tag |-> "null", tok |-> NoToken, list |-> {}]
TokHolder(t) == [tag |-> "token", tok |-> t, list |-> {}]
ListHolder(l) == [tag |-> "list", tok |-> NoToken, list |-> l]

\* no release script call of the handle has been rejected
NoError == [message |-> "none", code |-> "none"]

InitTask ==
    [pc |-> "idle", token |-> NoToken, writeLockClaimed |-> FALSE,
     lastLockHolder |-> NullHolder, lastCode |-> -1,
     waitTime |-> initialWaitTime, totalWaitTime |-> 0, resetWaitTime |-> FALSE,
     shard |-> 0, phase |-> "none", locks |-> <<>>, idx |-> 0,
     needDistributed |-> "unset", flagSetNow |-> "unset", lock |-> NoToken,
     cleanup |-> NoToken, cleanupShard |-> 0, pendingRelease |-> {},
     heartbeat |-> {}, error |-> "none",
     attempts |-> 0, resets |-> 0,
     referenceCount |-> 0, oldToken |-> NoToken, upgrading |-> "no",
     relockAfter |-> FALSE, requests |-> 0, releases |-> 0, thrown |-> "none",
     forced |-> FALSE, releaseError |-> NoError, wrapped |-> "no"]

\* ---------------------------------------------------------- lock set state
SetIds == 1 .. NumSets

\* LockSet constructor: locks = {}, dependentLockSets = []; locks[s] lists the
\* handles of set s in the order of their insertion, dependentLockSets those
\* of set 1. The other fields are the locals of the set operation under way.
NoSet == [locks |-> [s \in SetIds |-> <<>>], dependentLockSets |-> <<>>,
          pc |-> "idle", cur |-> 0, todo |-> <<>>, todoSets |-> <<>>,
          calls |-> <<>>, acquired |-> <<>>, awaiting |-> 0, force |-> FALSE,
          onErr |-> "none",
          upgradeFails |-> <<>>, error |-> "none"]

\* the application's name of a key, as character codes: "k1", "k2", "k3" or, in
\* scenario 302, "10" and "9"
keyName(k) ==
    IF scenario = 302 THEN (IF k = "k1" THEN <<49, 48>> ELSE <<57>>)
    ELSE <<107, IF k = "k1" THEN 49 ELSE IF k = "k2" THEN 50 ELSE 51>>

\* Object.keys(this.locks) for the handles hs listed in insertion order: the
\* names that are integer indices (canonical decimal numerals below 2^32 - 1 =
\* "4294967295") in ascending numeric order, then the other names in
\* insertion order
ObjectKeys(hs) ==
    LET RECURSIVE NumLess(_, _)
        NumLess(a, b) ==
            IF Len(a) # Len(b) THEN Len(a) < Len(b)
            ELSE IF a = <<>> THEN FALSE
            ELSE IF Head(a) # Head(b) THEN Head(a) < Head(b)
            ELSE NumLess(Tail(a), Tail(b))
        IsIndex(name) ==
            /\ Len(name) > 0
            /\ \A i \in 1 .. Len(name) : name[i] \in CharZero .. CharZero + 9
            /\ Len(name) > 1 => name[1] # CharZero
            /\ NumLess(name, <<52, 50, 57, 52, 57, 54, 55, 50, 57, 53>>)
        name(r) == keyName(Scenario(scenario)[r].key)
        isIdx(r) == IsIndex(name(r))
        notIdx(r) == ~IsIndex(name(r))
        less(a, b) == NumLess(name(a), name(b))
    IN  SortSeq(SelectSeq(hs, isIdx), less) \o SelectSeq(hs, notIdx)

RECURSIVE reverse(_)
reverse(s) == IF s = <<>> THEN <<>> ELSE reverse(Tail(s)) \o <<Head(s)>>

NoLast == [script |-> "none", shard |-> 0, key |-> "k1", token |-> NoToken, ttl |-> 0,
           pre |-> EmptyCell, post |-> EmptyCell, reply |-> Reply(-1, NoToken, NoList)]

Init ==
    /\ kv = [s \in Shards |-> [k \in Keys |-> EmptyCell]]
    /\ dflag = [s \in Shards |-> [k \in Keys |-> -2]]
    /\ tokenCtr = 1
    /\ task = [r \in Req |-> InitTask]
    /\ scenario \in 1 .. NumScenarios
    /\ last = NoLast
    /\ leaseExpired = FALSE
    /\ lockSet = NoSet

\* the effect of client.runScript(name, ...) on the shard's cell, recorded in last
RunScript(name, s, k, token, ttl, res) ==
    /\ kv' = [kv EXCEPT ![s][k] = res.cell]
    /\ last' = [script |-> name, shard |-> s, key |-> k, token |-> token, ttl |-> ttl,
                pre |-> kv[s][k], post |-> res.cell, reply |-> res.reply]


\* ------------------------------------------------- the acquisition engine
Cell(r) == kv[task[r].shard][Opt(r).key]

\* what the call is acquiring or its handle holds: isWriteLock of the handle,
\* which an upgrade turns from read to write
Role(r) ==
    IF task[r].phase \in {"acquire", "acquired"} THEN "read"
    ELSE IF task[r].phase = "none" THEN Opt(r).op
    ELSE "write"

\* heartbeatInterval (ms) and heartbeatTimeout (s) as readLock/writeLock default them
HeartbeatInterval(lockTimeout) == (lockTimeout * 1000) \div 3
HeartbeatTimeout(lockTimeout) == (HeartbeatInterval(lockTimeout) * 3 + 999) \div 1000

\* the timers a new handle starts: none when heartbeats are disabled
Timers(r, shards) ==
    IF Opt(r).heartbeat /\ HeartbeatInterval(Opt(r).lockTimeout) # 0 THEN shards ELSE {}

\* the RWLock / DistributedWriteLock constructor: a new handle counts one holder
newHandle(t) == [t EXCEPT !.referenceCount = 1, !.requests = 1]

\* RWLock._relock: one more holder of a locked handle; a released one throws
relock(t) ==
    IF t.pc = "held"
    THEN [t EXCEPT !.referenceCount = @ + 1, !.requests = @ + 1]
    ELSE [t EXCEPT !.thrown = "relock"]

\* mutant of releaseCount: any release drops every holder
releaseCountToZero(rc) == 0

\* RWLock.release: the reference count after the decrement, never below zero
releaseCount(rc) == IF rc - 1 < 0 THEN 0 ELSE rc - 1

\* mutant of forceReleased: the holders are forgotten
forceReleasedZeroCount(t, pc) ==
    [t EXCEPT !.pc = pc, !.heartbeat = {}, !.referenceCount = 0]

\* RWLock.forceRelease, the handle's side: isLocked = false and nothing else
forceReleased(t, pc) == [t EXCEPT !.pc = pc, !.heartbeat = {}]

\* mutant of upgraded: the handle takes the new lock's count with its token
upgradedAsNewLock(t) == [t EXCEPT !.upgrading = "done", !.referenceCount = 1]

\* RWLock.upgrade, the then-branch: the handle takes over the token of the
\* new write lock (task.token already is that token) and is locked again
upgraded(t) == [t EXCEPT !.upgrading = "done"]

\* the handle a granted single-shard acquisition ends in: a new one, or the
\* upgrading one, which LockSet.writeLock then relocks
handleOf(t) ==
    IF t.upgrading = "yes"
    THEN IF t.relockAfter THEN relock(upgraded(t)) ELSE upgraded(t)
    ELSE newHandle(t)

\* mutant of LostConflictResolution: nobody ever loses
LostConflictResolutionNever(resolveConflicts, holder, token) == FALSE

\* mutant of LostConflictResolution: the comparison is turned around
LostConflictResolutionReversed(resolveConflicts, holder, token) ==
    resolveConflicts /\ StrLess(token, holder)

\* writeLock: if (resolveConflicts) { if (result[1] < token) ... }
LostConflictResolution(resolveConflicts, holder, token) ==
    resolveConflicts /\ StrLess(holder, token)

\* the start of one Locker.writeLock call without options.distributed:
\* the token is created and the retry loop starts with fresh counters
BeginWriteLock(t, r, shard, phase) ==
    [t EXCEPT !.pc = "script", !.phase = phase, !.shard = shard,
              !.token = createToken(Opt(r).tokenBase, Opt(r).conflictPriority, tokenCtr),
              !.writeLockClaimed = FALSE, !.lastLockHolder = NullHolder, !.lastCode = -1,
              !.waitTime = initialWaitTime, !.totalWaitTime = 0, !.resetWaitTime = FALSE,
              !.attempts = 0, !.resets = 0]

\* what the caller of a failed inner writeLock does: _writeLockDistributed
\* force-releases the shards it already holds, one after the other
Propagate(t, err) ==
    IF t.phase = "dist" /\ Len(t.locks) > 0
    THEN [t EXCEPT !.pc = "distCleanup", !.idx = 0, !.error = err]
    ELSE [t EXCEPT !.pc = "rejected", !.error = err]

\* mutant of RejectWrite: the error is rethrown and the claim is left behind
RejectWriteNoRelease(t, err) == Propagate(t, err)

\* the catch block of writeLock: a claimed slot is released without waiting
RejectWrite(t, err) ==
    Propagate(IF t.writeLockClaimed
              THEN [t EXCEPT !.cleanup = t.token, !.cleanupShard = t.shard]
              ELSE t, err)

\* mutant of timeoutPromise: a zero maxWaitTime is compared like any other
timeoutPromiseNoFailFast(t, isWrite, maxWaitMs, reset) ==
    IF t.totalWaitTime >= maxWaitMs /\ maxWaitMs # 0
    THEN IF isWrite THEN RejectWrite(t, "timeout") ELSE [t EXCEPT !.pc = "rejected", !.error = "timeout"]
    ELSE [t EXCEPT !.pc = "sleep", !.totalWaitTime = @ + t.waitTime, !.resetWaitTime = reset,
                   !.resets = @ + (IF reset THEN 1 ELSE 0)]

\* mutant of timeoutPromise: a reset also starts the accumulated wait afresh
timeoutPromiseResetClearsTotal(t, isWrite, maxWaitMs, reset) ==
    IF maxWaitMs = 0
    THEN IF isWrite THEN RejectWrite(t, "locked") ELSE [t EXCEPT !.pc = "rejected", !.error = "locked"]
    ELSE IF t.totalWaitTime >= maxWaitMs
    THEN IF isWrite THEN RejectWrite(t, "timeout") ELSE [t EXCEPT !.pc = "rejected", !.error = "timeout"]
    ELSE [t EXCEPT !.pc = "sleep", !.resetWaitTime = reset,
                   !.totalWaitTime = IF reset THEN t.waitTime ELSE @ + t.waitTime,
                   !.resets = @ + (IF reset THEN 1 ELSE 0)]

\* _retryUntilTimeOut.timeoutPromise up to the setTimeout call
timeoutPromise(t, isWrite, maxWaitMs, reset) ==
    IF maxWaitMs = 0
    THEN IF isWrite THEN RejectWrite(t, "locked") ELSE [t EXCEPT !.pc = "rejected", !.error = "locked"]
    ELSE IF t.totalWaitTime >= maxWaitMs
    THEN IF isWrite THEN RejectWrite(t, "timeout") ELSE [t EXCEPT !.pc = "rejected", !.error = "timeout"]
    ELSE [t EXCEPT !.pc = "sleep", !.totalWaitTime = @ + t.waitTime, !.resetWaitTime = reset,
                   !.resets = @ + (IF reset THEN 1 ELSE 0)]

\* mutant of newWaitTime: no upper limit
newWaitTimeUncapped(waitTime, rnd, reset) ==
    IF reset THEN initialWaitTime ELSE waitTime * 3 + rnd

\* the wait after the next miss, computed in the setTimeout callback
newWaitTime(waitTime, rnd, reset) ==
    IF reset THEN initialWaitTime
    ELSE IF waitTime * 3 + rnd > maxRetryWaitTime THEN maxRetryWaitTime
    ELSE waitTime * 3 + rnd

UsesFlag(r) == Opt(r).distributed = "on" /\ Opt(r).enableDistributedAuto # "false"

\* a call starts: readLock creates its token (twice, the inner one is used) and
\* picks its shard; writeLock dispatches on options.distributed. A call made
\* through a lock set reaches the locker only when the set has no handle for
\* the key (otherwise the set relocks or upgrades the handle it has)
Start(r) ==
    /\ task[r].pc = "idle"
    /\ Opt(r).op # "none"
    /\ Opt(r).batch => lockSet.pc = "lockSet" /\ lockSet.awaiting = r
    /\ (Opt(r).lockSet \in SetIds /\ ~Opt(r).batch) =>
          LET hs == lockSet.locks[Opt(r).lockSet]
          IN  \A i \in 1 .. Len(hs) : Opt(hs[i]).key # Opt(r).key
    /\ Opt(r).after # 0 => task[Opt(r).after].pc = "held"
    /\ \A d \in Opt(r).afterDone : task[d].pc \in {"released", "rejected"}
    /\ \/ /\ Opt(r).op = "read"
          /\ \E sh \in Shards :
               /\ Opt(r).distributed = "off" => sh = ShardOfKey(Opt(r).key)
               /\ task' = [task EXCEPT ![r] =
                     [@ EXCEPT !.pc = IF UsesFlag(r) THEN "flagTtl" ELSE "script",
                               !.phase = "acquire", !.shard = sh,
                               !.token = createToken(Opt(r).tokenBase, readTokenPriority,
                                                     tokenCtr + 1)]]
          /\ tokenCtr' = tokenCtr + 2
       \/ /\ Opt(r).op = "write"
          /\ Opt(r).distributed = "off"
          /\ task' = [task EXCEPT ![r] =
                         BeginWriteLock(@, r, ShardOfKey(Opt(r).key), "single")]
          /\ tokenCtr' = tokenCtr + 1
       \/ /\ Opt(r).op = "write"
          /\ Opt(r).distributed = "on"
          /\ task' = [task EXCEPT ![r] = BeginWriteLock(@, r, 0, "dist")]
          /\ tokenCtr' = tokenCtr + 1
       \/ /\ Opt(r).op = "write"
          /\ Opt(r).distributed = "auto"
          /\ task' = [task EXCEPT ![r] = [@ EXCEPT !.pc = "autoCheck1"]]
          /\ tokenCtr' = tokenCtr
    /\ UNCHANGED <<kv, dflag, scenario, lockSet, last, leaseExpired>>

\* _checkAndSetDistributedLockFlag: the TTL of the flag is read on a random shard
FlagTtl(r) ==
    /\ task[r].pc = "flagTtl"
    /\ \E sh \in Shards :
         LET result == dflag[sh][Opt(r).key]
             after == IF task[r].phase = "acquire" THEN "script" ELSE "held"
         IN  task' = [task EXCEPT ![r] =
                 IF result = -1 THEN [@ EXCEPT !.pc = after]
                 ELSE IF result = -2 \/ (result >= 0 /\ result < minDistributedLockFlagExpireTime + 1)
                 THEN [@ EXCEPT !.pc = "flagSet", !.idx = 0]
                 ELSE [@ EXCEPT !.pc = after]]
    /\ UNCHANGED <<kv, dflag, tokenCtr, scenario, lockSet, last, leaseExpired>>

\* ... and written on one shard after the other
FlagSet(r) ==
    /\ task[r].pc = "flagSet"
    /\ dflag' = [dflag EXCEPT ![task[r].idx][Opt(r).key] = maxDistributedLockFlagExpireTime]
    /\ task' = [task EXCEPT ![r] =
           IF task[r].idx + 1 < NumShards THEN [@ EXCEPT !.idx = @ + 1]
           ELSE [@ EXCEPT !.idx = 0,
                          !.pc = IF task[r].phase = "acquire" THEN "script" ELSE "held"]]
    /\ UNCHANGED <<kv, tokenCtr, scenario, lockSet, last, leaseExpired>>

\* one attempt of readLock: the script and the handling of its reply
AttemptRead(r) ==
    /\ task[r].pc = "script"
    /\ Role(r) = "read"
    /\ LET t == task[r]
           res == readLockScript(Cell(r), t.token, Opt(r).lockTimeout)
           seen == TokHolder(res.reply.tok)
           t1 == [t EXCEPT !.lastCode = res.reply.code, !.attempts = @ + 1]
       IN  /\ RunScript("readLock", t.shard, Opt(r).key, t.token, Opt(r).lockTimeout, res)
           /\ task' = [task EXCEPT ![r] =
                IF res.reply.code = 1
                THEN IF Opt(r).distributed = "on" /\ Opt(r).enableDistributedAuto = "true"
                     THEN newHandle([t1 EXCEPT !.pc = "flagTtl", !.phase = "acquired",
                                               !.heartbeat = Timers(r, {t.shard})])
                     ELSE newHandle([t1 EXCEPT !.pc = "held", !.phase = "acquired",
                                               !.heartbeat = Timers(r, {t.shard})])
                ELSE timeoutPromise([t1 EXCEPT !.lastLockHolder = seen], FALSE,
                                    Opt(r).maxWaitMs,
                                    t.lastLockHolder # NullHolder /\ seen # t.lastLockHolder)]
    /\ UNCHANGED <<dflag, tokenCtr, scenario, lockSet, leaseExpired>>


\* mutant of Granted: the distributed writer stops after the first shard
GrantedFirstShardOnly(t, r) ==
    IF t.phase = "single"
    THEN handleOf([t EXCEPT !.pc = "held", !.heartbeat = Timers(r, {t.shard})])
    ELSE IF t.phase = "autoSingle"
    THEN [t EXCEPT !.pc = "autoCheck2"]
    ELSE newHandle([t EXCEPT !.locks = [i \in 1 .. NumShards |-> t.token], !.pc = "held",
                             !.heartbeat = Timers(r, Shards)])

\* an inner writeLock call has acquired its shard: what its caller does next
Granted(t, r) ==
    IF t.phase = "single"
    THEN handleOf([t EXCEPT !.pc = "held", !.heartbeat = Timers(r, {t.shard})])
    ELSE IF t.phase = "autoSingle"
    THEN [t EXCEPT !.pc = "autoCheck2"]
    ELSE LET t1 == [t EXCEPT !.locks = Append(@, t.token)]
         IN  IF Len(t1.locks) = NumShards
             THEN newHandle([t1 EXCEPT !.pc = "held", !.heartbeat = Timers(r, Shards)])
             ELSE BeginWriteLock(t1, r, Len(t1.locks), "dist")

\* one attempt of writeLock: writeLock.lua, or writeLockRetry.lua once the slot
\* is claimed, and the handling of the reply
AttemptWrite(r) ==
    /\ task[r].pc = "script"
    /\ Role(r) = "write"
    /\ LET t == task[r]
           name == IF t.writeLockClaimed THEN "writeLockRetry" ELSE "writeLock"
           res == IF t.writeLockClaimed
                  THEN writeLockRetryScript(Cell(r), t.token, Opt(r).lockTimeout)
                  ELSE writeLockScript(Cell(r), t.token, Opt(r).lockTimeout)
           code == res.reply.code
           holder == TokHolder(res.reply.tok)
           t1 == [t EXCEPT !.lastCode = code, !.attempts = @ + 1]
           next ==
             IF code = 2
             THEN timeoutPromise([t1 EXCEPT !.writeLockClaimed = TRUE,
                                            !.lastLockHolder = ListHolder(res.reply.list)],
                                 TRUE, Opt(r).maxWaitMs, ~t.writeLockClaimed)
             ELSE IF code = 1
             THEN Granted(t1, r)
             ELSE IF LostConflictResolution(Opt(r).resolveConflicts, res.reply.tok, t.token)
             THEN Propagate([t1 EXCEPT !.lastLockHolder = holder], "conflict")
             ELSE IF t.lastLockHolder # NullHolder /\ t.lastLockHolder # holder
             THEN timeoutPromise([t1 EXCEPT !.writeLockClaimed = FALSE,
                                            !.lastLockHolder = holder],
                                 TRUE, Opt(r).maxWaitMs, TRUE)
             ELSE timeoutPromise([t1 EXCEPT !.writeLockClaimed = FALSE,
                                            !.lastLockHolder = holder],
                                 TRUE, Opt(r).maxWaitMs, FALSE)
       IN  /\ RunScript(name, t.shard, Opt(r).key, t.token, Opt(r).lockTimeout, res)
           /\ task' = [task EXCEPT ![r] = next]
           /\ tokenCtr' = IF next.token # t.token THEN tokenCtr + 1 ELSE tokenCtr
    /\ UNCHANGED <<dflag, scenario, lockSet, leaseExpired>>

\* one attempt whose script call is rejected with 'Shard unavailable': the catch
\* of _retryUntilTimeOut treats it as a miss without reset
AttemptUnavailable(r) ==
    /\ task[r].pc = "script"
    /\ Opt(r).faults
    /\ LET t == [task[r] EXCEPT !.lastCode = -2, !.attempts = @ + 1]
       IN  task' = [task EXCEPT ![r] =
               timeoutPromise(t, Role(r) = "write", Opt(r).maxWaitMs, FALSE)]
    /\ UNCHANGED <<kv, dflag, tokenCtr, scenario, lockSet, last, leaseExpired>>

\* one attempt whose script call is rejected with any other error: the catch of
\* _retryUntilTimeOut throws it on, to the catch block of writeLock or the caller
AttemptError(r) ==
    /\ task[r].pc = "script"
    /\ Opt(r).faults
    /\ LET t == [task[r] EXCEPT !.lastCode = -3, !.attempts = @ + 1]
       IN  task' = [task EXCEPT ![r] =
               IF Role(r) = "write" THEN RejectWrite(t, "error")
               ELSE [t EXCEPT !.pc = "rejected", !.error = "error"]]
    /\ UNCHANGED <<kv, dflag, tokenCtr, scenario, lockSet, last, leaseExpired>>

\* the backoff timer fires: the next wait is computed and the next attempt starts
WakeUp(r) ==
    /\ task[r].pc = "sleep"
    /\ \E rnd \in 0 .. 2 :
         task' = [task EXCEPT ![r] =
             [@ EXCEPT !.waitTime = newWaitTime(task[r].waitTime, rnd, task[r].resetWaitTime),
                       !.resetWaitTime = FALSE,
                       !.pc = IF Role(r) = "read" /\ UsesFlag(r) THEN "flagTtl"
                              ELSE "script"]]
    /\ UNCHANGED <<kv, dflag, tokenCtr, scenario, lockSet, last, leaseExpired>>

\* the writeLockRelease that the catch block of writeLock sent without awaiting it
CleanupRelease(r) ==
    /\ task[r].cleanup # NoToken
    /\ LET t == task[r]
           res == writeLockReleaseScript(kv[t.cleanupShard][Opt(r).key], t.cleanup)
       IN  /\ RunScript("writeLockRelease", t.cleanupShard, Opt(r).key, t.cleanup, 0, res)
           /\ task' = [task EXCEPT ![r] = [@ EXCEPT !.cleanup = NoToken]]
    /\ UNCHANGED <<dflag, tokenCtr, scenario, lockSet, leaseExpired>>

\* _writeLockDistributed, catch: await lock.forceRelease() for each lock it holds
DistCleanup(r) ==
    /\ task[r].pc = "distCleanup"
    /\ LET t == task[r]
           tok == t.locks[t.idx + 1]
           res == writeLockReleaseScript(kv[t.idx][Opt(r).key], tok)
       IN  /\ RunScript("writeLockRelease", t.idx, Opt(r).key, tok, 0, res)
           /\ task' = [task EXCEPT ![r] =
                 IF t.idx + 1 < Len(t.locks) THEN [@ EXCEPT !.idx = @ + 1]
                 ELSE [@ EXCEPT !.idx = 0, !.pc = "rejected"]]
    /\ UNCHANGED <<dflag, tokenCtr, scenario, lockSet, leaseExpired>>

\* _checkDistributedLockFlag before the automatic writer locks anything
AutoCheck1(r) ==
    /\ task[r].pc = "autoCheck1"
    /\ \E sh \in Shards :
         LET needDistributed == dflag[sh][Opt(r).key] # -2
             t1 == [task[r] EXCEPT !.needDistributed = IF needDistributed THEN "yes" ELSE "no"]
         IN  task' = [task EXCEPT ![r] =
                 IF needDistributed THEN BeginWriteLock(t1, r, 0, "dist")
                 ELSE BeginWriteLock(t1, r, ShardOfKey(Opt(r).key), "autoSingle")]
    /\ tokenCtr' = tokenCtr + 1
    /\ UNCHANGED <<kv, dflag, scenario, lockSet, last, leaseExpired>>

\* mutant of AutoCheck2: the normal lock is returned whatever the flag says
AutoCheck2KeepingLock(r) ==
    /\ task[r].pc = "autoCheck2"
    /\ \E sh \in Shards :
         LET flagSetNow == dflag[sh][Opt(r).key] # -2
         IN  task' = [task EXCEPT ![r] =
                 newHandle([@ EXCEPT !.flagSetNow = IF flagSetNow THEN "yes" ELSE "no",
                                     !.pc = "held", !.phase = "single",
                                     !.heartbeat = Timers(r, {task[r].shard})])]
    /\ UNCHANGED <<kv, dflag, tokenCtr, scenario, lockSet, last, leaseExpired>>

\* ... and again once the normal lock is held
AutoCheck2(r) ==
    /\ task[r].pc = "autoCheck2"
    /\ \E sh \in Shards :
         LET flagSetNow == dflag[sh][Opt(r).key] # -2
         IN  task' = [task EXCEPT ![r] =
                 IF flagSetNow THEN [@ EXCEPT !.flagSetNow = "yes", !.pc = "autoRelease",
                                            !.lock = task[r].token]
                 ELSE newHandle([@ EXCEPT !.flagSetNow = "no", !.pc = "held",
                                          !.phase = "single",
                                          !.heartbeat = Timers(r, {task[r].shard})])]
    /\ UNCHANGED <<kv, dflag, tokenCtr, scenario, lockSet, last, leaseExpired>>

\* the flag appeared: await lock.forceRelease(), then lock every shard
AutoRelease(r) ==
    /\ task[r].pc = "autoRelease"
    /\ LET t == task[r]
           res == writeLockReleaseScript(Cell(r), t.token)
       IN  /\ RunScript("writeLockRelease", t.shard, Opt(r).key, t.token, 0, res)
           /\ task' = [task EXCEPT ![r] =
                  BeginWriteLock(t, r, 0, "dist")]
    /\ tokenCtr' = tokenCtr + 1
    /\ UNCHANGED <<dflag, scenario, lockSet, leaseExpired>>


\* ------------------------------------------------------------ lock handles
\* A handle is the task in pc "held": RWLock {key, token, shard, isLocked} for
\* a read lock or a single-shard write lock, DistributedWriteLock {rwlocks}
\* for a write lock on every shard.
IsDistributedHandle(r) == task[r].phase = "dist"

HandleShards(r) == IF IsDistributedHandle(r) THEN Shards ELSE {task[r].shard}

HandleToken(r, sh) == IF IsDistributedHandle(r) THEN task[r].locks[sh + 1] ELSE task[r].token

isLocked(r) == task[r].pc = "held"

\* RWLock.forceRelease of a locked read or single-shard write handle whose
\* record is t, DistributedWriteLock.forceRelease up to Promise.all
forceRelease(r, t) ==
    IF IsDistributedHandle(r)
    THEN /\ task' = [task EXCEPT ![r] =
                [forceReleased(t, "releasing") EXCEPT !.pendingRelease = Shards]]
         /\ UNCHANGED <<kv, last>>
    ELSE LET res == IF Role(r) = "read"
                    THEN readLockReleaseScript(Cell(r), t.token)
                    ELSE writeLockReleaseScript(Cell(r), t.token)
         IN  /\ RunScript(IF Role(r) = "read" THEN "readLockRelease"
                          ELSE "writeLockRelease",
                          t.shard, Opt(r).key, t.token, 0, res)
             /\ task' = [task EXCEPT ![r] = forceReleased(t, "released")]

\* release() of a locked handle: one holder less, and forceRelease() when
\* none is left
Release(r) ==
    /\ isLocked(r)
    /\ LET t == [task[r] EXCEPT !.referenceCount = releaseCount(@), !.releases = @ + 1]
       IN  IF t.referenceCount = 0
           THEN forceRelease(r, t)
           ELSE task' = [task EXCEPT ![r] = t] /\ UNCHANGED <<kv, last>>
    /\ UNCHANGED <<dflag, tokenCtr, scenario, lockSet, leaseExpired>>

\* one of the per-shard releases that DistributedWriteLock.forceRelease started
ReleaseShard(r, sh) ==
    /\ task[r].pc = "releasing"
    /\ sh \in task[r].pendingRelease
    /\ LET t == task[r]
           res == writeLockReleaseScript(kv[sh][Opt(r).key], t.locks[sh + 1])
       IN  /\ RunScript("writeLockRelease", sh, Opt(r).key, t.locks[sh + 1], 0, res)
           /\ task' = [task EXCEPT ![r] =
                 [@ EXCEPT !.pendingRelease = @ \ {sh},
                           !.pc = IF t.pendingRelease = {sh} THEN "released" ELSE @]]
    /\ UNCHANGED <<dflag, tokenCtr, scenario, lockSet, leaseExpired>>

\* the heartbeat timer of a handle fires; a reply other than 1 stops the timer
Heartbeat(r, sh) ==
    /\ isLocked(r)
    /\ sh \in task[r].heartbeat
    /\ LET tok == HandleToken(r, sh)
           ttl == HeartbeatTimeout(Opt(r).lockTimeout)
           res == IF Role(r) = "read"
                  THEN readLockHeartbeatScript(kv[sh][Opt(r).key], tok, ttl)
                  ELSE writeLockHeartbeatScript(kv[sh][Opt(r).key], tok, ttl)
       IN  /\ RunScript(IF Role(r) = "read" THEN "readLockHeartbeat"
                        ELSE "writeLockHeartbeat", sh, Opt(r).key, tok, ttl, res)
           /\ task' = [task EXCEPT ![r] =
                 [@ EXCEPT !.heartbeat = IF res.reply.code = 1 THEN @ ELSE @ \ {sh}]]
    /\ UNCHANGED <<dflag, tokenCtr, scenario, lockSet, leaseExpired>>

\* --------------------------------------------------------------- lock sets
\* A lock set maps each key to one handle; the handle of call r stays in the
\* set, locked or not, once the acquisition has returned it.
HasHandle(r) == task[r].requests > 0

\* LockSet.readLock on a key the set holds: _relock of the handle it has
Relock(r) ==
    /\ HasHandle(r)
    /\ task[r].requests < 1 + Opt(r).relocks
    /\ task[r].thrown = "none"
    /\ Opt(r).lockSet # 0 =>
          \E i \in 1 .. Len(lockSet.locks[Opt(r).lockSet]) :
              lockSet.locks[Opt(r).lockSet][i] = r
    /\ task' = [task EXCEPT ![r] = relock(@)]
    /\ UNCHANGED <<kv, dflag, tokenCtr, scenario, lockSet, last, leaseExpired>>

\* RWLock.upgrade up to the call of locker.writeLock; andRelock: the caller
\* is LockSet.writeLock, which relocks the handle the upgrade resolves with
upgrade(r, andRelock) ==
    LET t == task[r]
    IN  IF ~isLocked(r)
        THEN /\ task' = [task EXCEPT ![r] = [t EXCEPT !.thrown = "released"]]
             /\ UNCHANGED <<kv, last, tokenCtr>>
        ELSE IF Role(r) = "write"
        THEN /\ task' = [task EXCEPT ![r] =
                    IF andRelock THEN relock([t EXCEPT !.upgrading = "noop"])
                    ELSE [t EXCEPT !.upgrading = "noop"]]
             /\ UNCHANGED <<kv, last, tokenCtr>>
        ELSE LET res == readLockReleaseScript(Cell(r), t.token)
                 t1 == [forceReleased(t, "script") EXCEPT
                           !.oldToken = t.token, !.upgrading = "yes",
                           !.relockAfter = andRelock]
             IN  /\ RunScript("readLockRelease", t.shard, Opt(r).key, t.token, 0, res)
                 /\ task' = [task EXCEPT ![r] =
                        BeginWriteLock(t1, r, ShardOfKey(Opt(r).key), "single")]
                 /\ tokenCtr' = tokenCtr + 1

\* options.onError || 'stop'
onError(r) == IF Opt(r).upgrade = "release" THEN "release" ELSE "stop"

\* handle.upgrade(options) called by the application
Upgrade(r) ==
    /\ Opt(r).upgrade # "none"
    /\ HasHandle(r)
    /\ task[r].upgrading = "no"
    /\ task[r].thrown = "none"
    /\ upgrade(r, FALSE)
    /\ UNCHANGED <<dflag, scenario, lockSet, leaseExpired>>

\* LockSet.writeLock on a key the set holds: this.locks[key].upgrade(options)
\* and then _relock; a DistributedWriteLock has no upgrade method
SetWriteLock(r) ==
    /\ Opt(r).setWrite
    /\ HasHandle(r)
    /\ task[r].upgrading = "no"
    /\ task[r].thrown = "none"
    /\ IF IsDistributedHandle(r)
       THEN /\ task' = [task EXCEPT ![r] = [@ EXCEPT !.thrown = "TypeError"]]
            /\ UNCHANGED <<kv, last, tokenCtr>>
       ELSE upgrade(r, TRUE)
    /\ UNCHANGED <<dflag, scenario, lockSet, leaseExpired>>

\* mutant of upgradeCatch: onError 'release' releases and resolves
upgradeCatchSwallows(t, onErr) ==
    [t EXCEPT !.upgrading = "failed", !.thrown = IF onErr = "release" THEN "none" ELSE t.error]

\* RWLock.upgrade, the catch: with onError 'release' forceRelease() is called,
\* which returns at once because isLocked is false since the upgrade began;
\* then the error is thrown again
upgradeCatch(t, onErr) ==
    LET t1 == IF onErr = "release" /\ t.pc = "held" THEN forceReleased(t, "released") ELSE t
    IN  [t1 EXCEPT !.upgrading = "failed", !.thrown = t.error]

\* the locker.writeLock of an upgrade was rejected
UpgradeCatch(r) ==
    /\ task[r].upgrading = "yes"
    /\ task[r].pc = "rejected"
    /\ task' = [task EXCEPT ![r] = upgradeCatch(@, onError(r))]
    /\ UNCHANGED <<kv, dflag, tokenCtr, scenario, lockSet, last, leaseExpired>>

\* handle.forceRelease() called by the application on a locked handle
ForceRelease(r) ==
    /\ Opt(r).force
    /\ isLocked(r)
    /\ forceRelease(r, [task[r] EXCEPT !.forced = TRUE])
    /\ UNCHANGED <<dflag, tokenCtr, scenario, lockSet, leaseExpired>>

\* release() of a handle that is not locked (released, or in the middle of an
\* upgrade): the count goes down, and at zero forceRelease() returns at once
ReleaseUnlocked(r) ==
    /\ HasHandle(r)
    /\ ~isLocked(r)
    /\ task[r].releases <= task[r].requests
    /\ task' = [task EXCEPT ![r] =
           [@ EXCEPT !.referenceCount = releaseCount(@), !.releases = @ + 1]]
    /\ UNCHANGED <<kv, dflag, tokenCtr, scenario, lockSet, last, leaseExpired>>

\* the errors a release script call can be rejected with
ReleaseErrors ==
    [message : {"Shard unavailable", "ERR"}, code : {"redis_error", "internal_error"}]

\* mutant of releaseCatch: read and write alike, shard-unavailable included
releaseCatchAlike(isWriteLock, error) ==
    IF error.message = "Shard unavailable" \/ error.code = "redis_error"
    THEN "swallowed" ELSE "thrown"

\* RWLock.forceRelease, what becomes of an error of the release script: the
\* read branch has no catch, the write branch warns and resolves for a
\* redis_error that is not 'Shard unavailable'
releaseCatch(isWriteLock, error) ==
    IF isWriteLock /\ error.message # "Shard unavailable" /\ error.code = "redis_error"
    THEN "swallowed" ELSE "thrown"

\* the handle after a forceRelease() whose script call was rejected with error
releaseFailed(t, pc, isWriteLock, error) ==
    [forceReleased(t, pc) EXCEPT
        !.releaseError = error,
        !.thrown = IF releaseCatch(isWriteLock, error) = "thrown" THEN error.code ELSE @]

\* handle.forceRelease() of a locked read or single-shard write handle whose
\* release script is rejected: the script has no effect on the shard
ForceReleaseFault(r, error) ==
    /\ Opt(r).force /\ Opt(r).releaseFaults
    /\ isLocked(r)
    /\ ~IsDistributedHandle(r)
    /\ task' = [task EXCEPT ![r] =
           releaseFailed([@ EXCEPT !.forced = TRUE], "released", Role(r) = "write", error)]
    /\ UNCHANGED <<kv, dflag, tokenCtr, scenario, lockSet, last, leaseExpired>>

\* one of the per-shard forceRelease() calls of a distributed write handle is
\* rejected; Promise.all rejects with the first error that was not swallowed
ReleaseShardFault(r, sh, error) ==
    /\ Opt(r).releaseFaults
    /\ task[r].pc = "releasing"
    /\ sh \in task[r].pendingRelease
    /\ task[r].releaseError = NoError
    /\ LET t == [task[r] EXCEPT !.pendingRelease = @ \ {sh}]
           pc == IF t.pendingRelease = {} THEN "released" ELSE "releasing"
       IN  task' = [task EXCEPT ![r] = releaseFailed(t, pc, TRUE, error)]
    /\ UNCHANGED <<kv, dflag, tokenCtr, scenario, lockSet, last, leaseExpired>>

\* ---------------------------------------------------- lock set operations
\* LockSet.readLock / writeLock on a key the set does not hold: the handle
\* that the locker returned is added; addLock throws when the key is there
addLock(r) ==
    /\ Opt(r).lockSet \in SetIds
    /\ ~Opt(r).batch
    /\ isLocked(r)
    /\ lockSet.pc = "idle"
    /\ task[r].thrown = "none"
    /\ \A s \in SetIds : \A i \in 1 .. Len(lockSet.locks[s]) : lockSet.locks[s][i] # r
    /\ LET hs == lockSet.locks[Opt(r).lockSet]
       IN  IF \A i \in 1 .. Len(hs) : Opt(hs[i]).key # Opt(r).key
           THEN /\ lockSet' = [lockSet EXCEPT !.locks[Opt(r).lockSet] = Append(@, r)]
                /\ UNCHANGED task
           ELSE /\ task' = [task EXCEPT ![r] = [@ EXCEPT !.thrown = "locked"]]
                /\ UNCHANGED lockSet
    /\ UNCHANGED <<kv, dflag, tokenCtr, scenario, last, leaseExpired>>

\* set 1 gets the dependent set d
addDependentLockSet(d) ==
    /\ d \in SetIds \ {1}
    /\ lockSet.pc = "idle"
    /\ lockSet.locks[d] # <<>>
    /\ \A i \in 1 .. Len(lockSet.dependentLockSets) : lockSet.dependentLockSets[i] # d
    /\ lockSet' = [lockSet EXCEPT !.dependentLockSets = Append(@, d)]
    /\ UNCHANGED <<kv, dflag, tokenCtr, task, scenario, last, leaseExpired>>

\* the locals of LockSet.release / forceRelease of set 1 when it begins
releaseBegin(ls, force) ==
    [ls EXCEPT !.pc = "release", !.cur = 1, !.force = force, !.awaiting = 0,
               !.calls = <<>>,
               !.todo = reverse(ObjectKeys(ls.locks[1])),
               !.todoSets = reverse(ls.dependentLockSets)]

\* lockSet.release() or lockSet.forceRelease() called by the application
SetRelease(force) ==
    /\ lockSet.pc = "idle"
    /\ lockSet.locks[1] # <<>>
    /\ lockSet' = releaseBegin(lockSet, force)
    /\ UNCHANGED <<kv, dflag, tokenCtr, task, scenario, last, leaseExpired>>

\* the next step of the two eachSeries loops of release / forceRelease: the
\* release of the next handle, or the clearing of the set whose handles are
\* done and the turn of the next dependent set
SetReleaseNext ==
    /\ lockSet.pc = "release"
    /\ lockSet.awaiting # 0 => task[lockSet.awaiting].pc # "releasing"
    /\ IF lockSet.todo # <<>>
       THEN LET r == Head(lockSet.todo)
                t == [task[r] EXCEPT !.referenceCount = releaseCount(@),
                                     !.releases = @ + 1]
            IN  /\ IF lockSet.force
                   THEN IF isLocked(r)
                        THEN forceRelease(r, [task[r] EXCEPT !.forced = TRUE])
                        ELSE UNCHANGED <<task, kv, last>>
                   ELSE IF isLocked(r) /\ t.referenceCount = 0
                        THEN forceRelease(r, t)
                        ELSE task' = [task EXCEPT ![r] = t] /\ UNCHANGED <<kv, last>>
                /\ lockSet' = [lockSet EXCEPT !.todo = Tail(@), !.awaiting = r,
                                              !.calls = Append(@, r)]
       ELSE /\ UNCHANGED <<task, kv, last>>
            /\ lockSet' =
                 IF lockSet.todoSets # <<>>
                 THEN [lockSet EXCEPT !.locks[lockSet.cur] = <<>>,
                                      !.cur = Head(lockSet.todoSets),
                                      !.todo = reverse(ObjectKeys(
                                                  lockSet.locks[Head(lockSet.todoSets)])),
                                      !.todoSets = Tail(@), !.awaiting = 0]
                 ELSE [lockSet EXCEPT !.locks[lockSet.cur] = <<>>,
                                      !.dependentLockSets = <<>>, !.cur = 0,
                                      !.awaiting = 0,
                                      !.pc = IF lockSet.error = "none" THEN "released"
                                             ELSE "rejected"]
    /\ UNCHANGED <<dflag, tokenCtr, scenario, leaseExpired>>

\* lockSet.upgrade({onError}) called by the application
SetUpgrade(onErr) ==
    /\ lockSet.pc = "idle"
    /\ lockSet.locks[1] # <<>>
    /\ lockSet' = [lockSet EXCEPT !.pc = "upgrade", !.onErr = onErr,
                                  !.todo = reverse(ObjectKeys(lockSet.locks[1]))]
    /\ UNCHANGED <<kv, dflag, tokenCtr, task, scenario, last, leaseExpired>>

\* the eachSeries loop of LockSet.upgrade calls upgrade() on the next handle,
\* or ends and resolves with upgradeFails
SetUpgradeNext ==
    /\ lockSet.pc = "upgrade"
    /\ lockSet.awaiting = 0
    /\ IF lockSet.todo # <<>>
       THEN /\ upgrade(Head(lockSet.todo), FALSE)
            /\ lockSet' = [lockSet EXCEPT !.awaiting = Head(lockSet.todo),
                                          !.calls = Append(@, Head(lockSet.todo))]
       ELSE /\ lockSet' = [lockSet EXCEPT !.pc = "resolved"]
            /\ UNCHANGED <<task, kv, last, tokenCtr>>
    /\ UNCHANGED <<dflag, scenario, leaseExpired>>

\* the upgrade() of a handle has settled: the loop goes on when it resolved;
\* when it was rejected the handle is collected (onError 'ignore'), or the
\* loop is rejected, and with onError 'release' this.release() runs first
SetUpgradeSettle ==
    /\ lockSet.pc = "upgrade"
    /\ lockSet.awaiting # 0
    /\ LET r == lockSet.awaiting
           next == [lockSet EXCEPT !.todo = Tail(@), !.awaiting = 0]
       IN  \/ /\ task[r].upgrading \in {"done", "noop"}
              /\ lockSet' = next
           \/ /\ task[r].upgrading = "failed" \/ task[r].thrown = "released"
              /\ lockSet' =
                   IF lockSet.onErr = "ignore"
                   THEN [next EXCEPT !.upgradeFails = Append(@, r)]
                   ELSE IF lockSet.onErr = "release"
                   THEN releaseBegin([lockSet EXCEPT !.error = task[r].thrown], FALSE)
                   ELSE [lockSet EXCEPT !.pc = "rejected", !.awaiting = 0,
                                        !.error = task[r].thrown]
    /\ UNCHANGED <<kv, dflag, tokenCtr, task, scenario, last, leaseExpired>>

\* mutant of wrapReleases: nothing is released when fn fails
wrapReleasesOnReturn(outcome) == IF outcome = "return" THEN 1 ELSE 0

\* readLockWrap / writeLockWrap: the calls of rwlock.release() once fn has
\* ended; when fn has thrown or rejected handleError runs in the rejection
\* handler and again in the catch that follows it
wrapReleases(outcome) == IF outcome = "return" THEN 1 ELSE 2

\* the fn of readLockWrap / writeLockWrap ends (it returns, throws or rejects)
\* and the wrapper releases the handle; the wrapper settles when the release
\* of the handle has
Wrap(r, outcome) ==
    /\ Opt(r).wrap
    /\ isLocked(r)
    /\ task[r].wrapped = "no"
    /\ LET n == wrapReleases(outcome)
           rc == IF n = 0 THEN task[r].referenceCount
                 ELSE IF n = 1 THEN releaseCount(task[r].referenceCount)
                 ELSE releaseCount(releaseCount(task[r].referenceCount))
           t == [task[r] EXCEPT !.referenceCount = rc, !.releases = @ + n,
                                !.wrapped = outcome]
       IN  IF n > 0 /\ rc = 0
           THEN forceRelease(r, t)
           ELSE task' = [task EXCEPT ![r] = t] /\ UNCHANGED <<kv, last>>
    /\ UNCHANGED <<dflag, tokenCtr, scenario, lockSet, leaseExpired>>

\* the keys argument of readLockSet / writeLockSet: one call per key
keys == SelectSeq([r \in Req |-> r], LAMBDA r : Opt(r).batch)

\* the lock set that _rwLockSet fills: options.lockSet, which is set 1, or,
\* when readLockSet / writeLockSet is called on lock set 1 without
\* options.lockSet, the dependent set that this.createLockSet() makes
batchSet ==
    IF keys # <<>> /\ Opt(keys[1]).lockSet \in SetIds THEN Opt(keys[1]).lockSet ELSE 1

\* readLockSet / writeLockSet(keys, {lockSet}) called on the locker, or
\* readLockSet(keys) called on lock set 1, by the application
rwLockSet ==
    /\ lockSet.pc = "idle"
    /\ keys # <<>>
    /\ lockSet.acquired = <<>>
    /\ \A i \in 1 .. Len(keys) : task[keys[i]].pc = "idle"
    /\ lockSet' = [lockSet EXCEPT !.pc = "lockSet", !.todo = keys,
                                  !.dependentLockSets =
                                      IF batchSet # 1 THEN Append(@, batchSet) ELSE @]
    /\ UNCHANGED <<kv, dflag, tokenCtr, task, scenario, last, leaseExpired>>

\* the eachSeries loop of _rwLockSet: the key is skipped when the set has it or
\* when this call has locked it, else readLock / writeLock is called; after
\* the last key the locks of this call are added to the set. Called on lock
\* set 1, this.readLock is LockSet.readLock, which relocks the handle that set
\* 1 has for the key (readLockSet only; writeLockSet on a lock set that holds
\* the key is left out)
rwLockSetNext ==
    /\ lockSet.pc = "lockSet"
    /\ lockSet.awaiting = 0
    /\ IF lockSet.todo = <<>>
       THEN /\ lockSet' = [lockSet EXCEPT !.pc = "idle",
                                          !.locks[batchSet] = @ \o lockSet.acquired]
            /\ UNCHANGED task
       ELSE LET key == Opt(Head(lockSet.todo)).key
                has(hs) == \E i \in 1 .. Len(hs) : Opt(hs[i]).key = key
            IN  IF has(lockSet.locks[batchSet]) \/ has(lockSet.acquired)
                THEN /\ lockSet' = [lockSet EXCEPT !.todo = Tail(@)]
                     /\ UNCHANGED task
                ELSE IF batchSet # 1 /\ has(lockSet.locks[1])
                THEN LET hs == lockSet.locks[1]
                         h == hs[CHOOSE i \in 1 .. Len(hs) : Opt(hs[i]).key = key]
                     IN  /\ Opt(Head(lockSet.todo)).op = "read"
                         /\ task' = [task EXCEPT ![h] = relock(@)]
                         /\ lockSet' = [lockSet EXCEPT !.acquired = Append(@, h),
                                                       !.todo = Tail(@)]
                ELSE /\ lockSet' = [lockSet EXCEPT !.awaiting = Head(lockSet.todo)]
                     /\ UNCHANGED task
    /\ UNCHANGED <<kv, dflag, tokenCtr, scenario, last, leaseExpired>>

\* mutant of rwLockSetCatch: the error is rethrown at once
rwLockSetCatchNoRelease(ls, error) ==
    [ls EXCEPT !.pc = "lockSetCatch", !.awaiting = 0, !.error = error, !.todo = <<>>]

\* the catch of _rwLockSet begins: the locks of this call are to be released
rwLockSetCatch(ls, error) ==
    [ls EXCEPT !.pc = "lockSetCatch", !.awaiting = 0, !.error = error, !.todo = ls.acquired]

\* the readLock / writeLock of a key has settled
rwLockSetSettle ==
    /\ lockSet.pc = "lockSet"
    /\ lockSet.awaiting # 0
    /\ LET r == lockSet.awaiting
       IN  \/ /\ isLocked(r)
              /\ lockSet' = [lockSet EXCEPT !.acquired = Append(@, r), !.awaiting = 0,
                                            !.todo = Tail(@),
                                            !.locks[1] = IF batchSet # 1 THEN Append(@, r)
                                                         ELSE @]
           \/ /\ task[r].pc = "rejected"
              /\ lockSet' = rwLockSetCatch(lockSet, task[r].error)
    /\ UNCHANGED <<kv, dflag, tokenCtr, task, scenario, last, leaseExpired>>

\* the eachSeries loop of the catch: release() of the next lock of this call,
\* and the original error thrown again after the last one
rwLockSetRelease ==
    /\ lockSet.pc = "lockSetCatch"
    /\ lockSet.awaiting # 0 => task[lockSet.awaiting].pc # "releasing"
    /\ IF lockSet.todo # <<>>
       THEN LET r == Head(lockSet.todo)
                t == [task[r] EXCEPT !.referenceCount = releaseCount(@),
                                     !.releases = @ + 1]
            IN  /\ IF isLocked(r) /\ t.referenceCount = 0
                   THEN forceRelease(r, t)
                   ELSE task' = [task EXCEPT ![r] = t] /\ UNCHANGED <<kv, last>>
                /\ lockSet' = [lockSet EXCEPT !.todo = Tail(@), !.awaiting = r]
       ELSE /\ lockSet' = [lockSet EXCEPT !.pc = "rejected", !.awaiting = 0]
            /\ UNCHANGED <<task, kv, last>>
    /\ UNCHANGED <<dflag, tokenCtr, scenario, leaseExpired>>

InitSets ==
    /\ kv = [s \in Shards |-> [k \in Keys |-> EmptyCell]]
    /\ dflag = [s \in Shards |-> [k \in Keys |-> -2]]
    /\ tokenCtr = 1
    /\ task = [r \in Req |-> InitTask]
    /\ scenario \in 301 .. 308
    /\ last = NoLast
    /\ leaseExpired = FALSE
    /\ lockSet = NoSet

NextSets ==
    \/ \E r \in Req : Start(r)
    \/ \E r \in Req : AttemptRead(r)
    \/ \E r \in Req : AttemptWrite(r)
    \/ \E r \in Req : CleanupRelease(r)
    \/ \E r \in Req : Relock(r)
    \/ \E r \in Req : UpgradeCatch(r)
    \/ \E r \in Req : addLock(r)
    \/ \E d \in SetIds : addDependentLockSet(d)
    \/ \E force \in BOOLEAN : SetRelease(force)
    \/ SetReleaseNext
    \/ \E onErr \in {"stop", "ignore", "release"} : SetUpgrade(onErr)
    \/ SetUpgradeNext
    \/ SetUpgradeSettle
    \/ \E r \in Req : AttemptError(r)
    \/ rwLockSet
    \/ rwLockSetNext
    \/ rwLockSetSettle
    \/ rwLockSetRelease
    \/ \E r \in Req, outcome \in {"return", "throw", "reject"} : Wrap(r, outcome)
    \/ \E r \in Req, sh \in Shards : ReleaseShard(r, sh)

SetSpec == InitSets /\ [][NextSets]_vars

\* ------------------------------------------------------------- the server
\* the TTL of a write slot runs out
ExpireWrite(sh, k) ==
    /\ kv[sh][k].write # NoToken
    /\ kv[sh][k].wttl >= 0
    /\ kv' = [kv EXCEPT ![sh][k] = [@ EXCEPT !.write = NoToken, !.wttl = -2]]
    /\ leaseExpired' = TRUE
    /\ UNCHANGED <<dflag, tokenCtr, task, scenario, lockSet, last>>

\* the TTL of a read set runs out
ExpireRead(sh, k) ==
    /\ kv[sh][k].read # {}
    /\ kv[sh][k].rttl >= 0
    /\ kv' = [kv EXCEPT ![sh][k] = [@ EXCEPT !.read = {}, !.rttl = -2]]
    /\ leaseExpired' = TRUE
    /\ UNCHANGED <<dflag, tokenCtr, task, scenario, lockSet, last>>

Next ==
    \/ \E r \in Req : Start(r)
    \/ \E r \in Req : FlagTtl(r)
    \/ \E r \in Req : FlagSet(r)
    \/ \E r \in Req : AttemptRead(r)
    \/ \E r \in Req : AttemptWrite(r)
    \/ \E r \in Req : WakeUp(r)
    \/ \E r \in Req : CleanupRelease(r)
    \/ \E r \in Req : DistCleanup(r)
    \/ \E r \in Req : AutoCheck1(r)
    \/ \E r \in Req : AutoCheck2(r)
    \/ \E r \in Req : AutoRelease(r)
    \/ \E r \in Req : Release(r)
    \/ \E r \in Req, sh \in Shards : ReleaseShard(r, sh)
    \/ \E r \in Req, sh \in Shards : Heartbeat(r, sh)
    \/ \E sh \in Shards, k \in Keys : ExpireWrite(sh, k)
    \/ \E sh \in Shards, k \in Keys : ExpireRead(sh, k)

Spec == Init /\ [][Next]_vars

\* ----------------------------------------- the retry loop on faulty shards
RetryScenarios == 101 .. 104

InitRetry ==
    /\ kv = [s \in Shards |-> [k \in Keys |-> EmptyCell]]
    /\ dflag = [s \in Shards |-> [k \in Keys |-> -2]]
    /\ tokenCtr = 1
    /\ task = [r \in Req |-> InitTask]
    /\ scenario \in RetryScenarios
    /\ last = NoLast
    /\ leaseExpired = FALSE
    /\ lockSet = NoSet

NextRetry ==
    \/ \E r \in Req : Start(r)
    \/ \E r \in Req : AttemptRead(r)
    \/ \E r \in Req : AttemptWrite(r)
    \/ \E r \in Req : AttemptUnavailable(r)
    \/ \E r \in Req : AttemptError(r)
    \/ \E r \in Req : WakeUp(r)
    \/ \E r \in Req : CleanupRelease(r)
    \/ \E r \in Req : DistCleanup(r)
    \/ \E r \in Req : Release(r)
    \/ \E r \in Req, sh \in Shards : ReleaseShard(r, sh)
    \/ \E r \in Req, sh \in Shards : Heartbeat(r, sh)
    \/ \E sh \in Shards, k \in Keys : ExpireWrite(sh, k)
    \/ \E sh \in Shards, k \in Keys : ExpireRead(sh, k)

RetrySpec == InitRetry /\ [][NextRetry]_vars

\* timers fire, script replies arrive and issued commands reach their shard
FairRetry ==
    RetrySpec
        /\ \A r \in Req : /\ WF_vars(AttemptRead(r) \/ AttemptWrite(r)
                                     \/ AttemptUnavailable(r) \/ AttemptError(r))
                           /\ WF_vars(WakeUp(r))
                           /\ WF_vars(CleanupRelease(r))
                           /\ WF_vars(DistCleanup(r))

\* ------------------------------------------------ the backoff of one writer
InitBackoff ==
    /\ kv = [s \in Shards |-> [k \in Keys |-> EmptyCell]]
    /\ dflag = [s \in Shards |-> [k \in Keys |-> -2]]
    /\ tokenCtr = 1
    /\ task = [r \in Req |-> InitTask]
    /\ scenario \in 401 .. 403
    /\ last = NoLast
    /\ leaseExpired = FALSE
    /\ lockSet = NoSet

NextBackoff ==
    \/ \E r \in Req : Start(r)
    \/ \E r \in Req : AttemptRead(r)
    \/ \E r \in Req : AttemptWrite(r)
    \/ \E r \in Req : WakeUp(r)
    \/ \E r \in Req : Release(r)
    \/ \E sh \in Shards, k \in Keys : ExpireWrite(sh, k)

BackoffSpec == InitBackoff /\ [][NextBackoff]_vars

HandleScenarios == 201 .. 209

InitHandles ==
    /\ kv = [s \in Shards |-> [k \in Keys |-> EmptyCell]]
    /\ dflag = [s \in Shards |-> [k \in Keys |-> -2]]
    /\ tokenCtr = 1
    /\ task = [r \in Req |-> InitTask]
    /\ scenario \in HandleScenarios
    /\ last = NoLast
    /\ leaseExpired = FALSE
    /\ lockSet = NoSet

NextHandles ==
    \/ \E r \in Req : Start(r)
    \/ \E r \in Req : AttemptRead(r)
    \/ \E r \in Req : AttemptWrite(r)
    \/ \E r \in Req : AttemptError(r)
    \/ \E r \in Req : WakeUp(r)
    \/ \E r \in Req : CleanupRelease(r)
    \/ \E r \in Req : Release(r)
    \/ \E r \in Req, sh \in Shards : ReleaseShard(r, sh)
    \/ \E r \in Req : Relock(r)
    \/ \E r \in Req : SetWriteLock(r)
    \/ \E r \in Req : Upgrade(r)
    \/ \E r \in Req : UpgradeCatch(r)
    \/ \E r \in Req : ForceRelease(r)

HandleSpec == InitHandles /\ [][NextHandles]_vars

FaultScenarios == 211 .. 213

InitHandleFaults ==
    /\ kv = [s \in Shards |-> [k \in Keys |-> EmptyCell]]
    /\ dflag = [s \in Shards |-> [k \in Keys |-> -2]]
    /\ tokenCtr = 1
    /\ task = [r \in Req |-> InitTask]
    /\ scenario \in FaultScenarios
    /\ last = NoLast
    /\ leaseExpired = FALSE
    /\ lockSet = NoSet

NextHandleFaults ==
    \/ NextHandles
    \/ \E r \in Req : ReleaseUnlocked(r)
    \/ \E r \in Req, error \in ReleaseErrors : ForceReleaseFault(r, error)
    \/ \E r \in Req, sh \in Shards, error \in ReleaseErrors : ReleaseShardFault(r, sh, error)

HandleFaultSpec == InitHandleFaults /\ [][NextHandleFaults]_vars

TypeOK ==
    /\ tokenCtr \in Nat
    /\ scenario \in (1 .. NumScenarios) \cup RetryScenarios \cup HandleScenarios
                        \cup FaultScenarios \cup (301 .. 308) \cup (401 .. 403)
    /\ \A r \in Req : task[r].totalWaitTime >= 0
    /\ \A s \in SetIds : \A i \in 1 .. Len(lockSet.locks[s]) : lockSet.locks[s][i] \in Req


\* ------------------------------------------------------------- properties
SameKey(a, b) == Opt(a).key = Opt(b).key
Writer(r) == Opt(r).op = "write"
Reader(r) == Opt(r).op = "read"
Received(r) == task[r].pc \in {"held", "releasing", "released"}
WriteScripts == {"writeLock", "writeLockRetry"}
DrainPhase(c) == c.write # NoToken /\ c.read # {}

\* at the moment a write script grants the lock, the slot is the writer's and
\* the read set is empty
GrantMoment ==
    (last.script \in WriteScripts /\ last.reply.code = 1)
        => (last.post.write = last.token /\ last.post.read = {})

C2_DrainPhaseBlocks ==
    /\ (last.script = "readLock" /\ DrainPhase(last.pre))
          => (last.reply.code = 0 /\ last.post = last.pre)
    /\ (last.script \in WriteScripts /\ DrainPhase(last.pre) /\ last.pre.write # last.token)
          => (last.reply.code = 0 /\ last.post = last.pre)

C2_Witness == last.script = "readLock" /\ DrainPhase(last.pre) /\ last.reply.code = 0

\* a reader whose readLock succeeded and whose token is still in the read set
ReaderIn(r) ==
    /\ Reader(r)
    /\ task[r].phase = "acquired"
    /\ task[r].token \in kv[task[r].shard][Opt(r).key].read

\* C3 as stated: while a successful reader's token is in ReadSet(k), WriteSlot(k)
\* is empty.
C3_Original ==
    \A r \in Req : ReaderIn(r) => kv[task[r].shard][Opt(r).key].write = NoToken

\* the slot holds a claim that has not been granted: its writer is still in its
\* retry loop with the claimed flag set, or has given up and not yet released it
PendingClaim(sh, k, tok) ==
    \E w \in Req :
        /\ Writer(w) /\ Opt(w).key = k
        /\ \/ /\ task[w].pc \in {"script", "sleep"} /\ task[w].writeLockClaimed
              /\ task[w].shard = sh /\ task[w].token = tok
           \/ task[w].cleanup = tok /\ task[w].cleanupShard = sh

\* C3 as amended: while a successful reader's token is in ReadSet(k), WriteSlot(k)
\* is empty or holds the claim of a writer that has not been granted the lock
\* (it is waiting for the readers to drain, or has given up and is about to
\* release the claim).
C3_Amended ==
    \A r \in Req : ReaderIn(r) =>
        LET c == kv[task[r].shard][Opt(r).key]
        IN  c.write = NoToken \/ PendingClaim(task[r].shard, Opt(r).key, c.write)

C3_Witness ==
    \E r \in Req : /\ ReaderIn(r) /\ isLocked(r)
                   /\ kv[task[r].shard][Opt(r).key].write # NoToken


\* C4: while a distributed write lock is held and no lease has expired, the
\* writer's token is in the write slot of every shard, the read set of every
\* shard is empty, a readLock script call on any shard would return 0, and no
\* other handle for the key is locked.
C4_DistributedExcludes ==
    ~leaseExpired =>
        \A w \in Req : (Writer(w) /\ isLocked(w) /\ IsDistributedHandle(w)) =>
            /\ \A sh \in Shards :
                 LET c == kv[sh][Opt(w).key]
                 IN  /\ c.write = task[w].locks[sh + 1]
                     /\ c.read = {}
                     /\ \A o \in Req : Reader(o) =>
                            readLockScript(c, task[o].token, Opt(o).lockTimeout).reply.code = 0
            /\ \A o \in Req \ {w} : SameKey(o, w) => ~isLocked(o)

\* a distributed write lock is held after a reader was turned away or has left
C4_Witness ==
    /\ ~leaseExpired
    /\ \E w \in Req : /\ Writer(w) /\ isLocked(w) /\ IsDistributedHandle(w)
                      /\ Opt(w).distributed = "on"
                      /\ \E o \in Req : /\ Reader(o) /\ SameKey(o, w)
                                        /\ task[o].pc = "rejected"
                      /\ \E o \in Req : /\ Reader(o) /\ SameKey(o, w)
                                        /\ task[o].pc = "released"

\* C5: a writeLock with distributed = 'auto' returns a distributed handle when
\* the first flag check found the flag; otherwise it takes a single-shard lock
\* and checks again: it returns that lock only if the flag is still absent, and
\* if the flag has appeared it releases the single-shard lock before it locks
\* every shard and returns the distributed handle.
C5_AutoMode ==
    \A r \in Req : Opt(r).distributed = "auto" =>
        LET t == task[r]
            natural == kv[ShardOfKey(Opt(r).key)][Opt(r).key]
        IN  /\ (isLocked(r) /\ IsDistributedHandle(r))
                  => (t.needDistributed = "yes"
                      \/ (t.needDistributed = "no" /\ t.flagSetNow = "yes"))
            /\ (isLocked(r) /\ ~IsDistributedHandle(r))
                  => (t.needDistributed = "no" /\ t.flagSetNow = "no")
            /\ t.needDistributed = "yes" => (t.phase = "dist" /\ t.flagSetNow = "unset")
            /\ t.flagSetNow = "no" => t.phase = "single"
            /\ (t.flagSetNow = "yes" /\ t.pc # "autoRelease")
                  => (t.phase = "dist" /\ t.lock # NoToken /\ natural.write # t.lock)
            /\ t.pc = "autoCheck2" => (t.needDistributed = "no" /\ natural.write = t.token)

\* the flag appeared between the two checks and the writer now holds every shard
C5_Witness ==
    \E r \in Req : /\ Opt(r).distributed = "auto" /\ isLocked(r) /\ IsDistributedHandle(r)
                   /\ task[r].needDistributed = "no" /\ task[r].flagSetNow = "yes"

\* the call that created a token, and the priority it asked with
Owner(tok) ==
    CHOOSE o \in Req : \/ task[o].token = tok
                       \/ \E i \in 1 .. Len(task[o].locks) : task[o].locks[i] = tok
OwnerPriority(tok) == Opt(Owner(tok)).conflictPriority
SawHolder(r) == Writer(r) /\ task[r].lastCode = 0 /\ task[r].lastLockHolder.tag = "token"

\* C6 (state part): a conflict-resolving attempt that found the slot held by
\* another token is rejected for conflict resolution exactly when the holder's
\* token is lexicographically lower than its own; a better (lower) priority
\* than the holder's never loses and a worse one always loses; a writer that
\* does not resolve conflicts is never rejected for conflict resolution.
C6_State ==
    \A r \in Req : SawHolder(r) =>
        LET holder == task[r].lastLockHolder.tok
            lost == task[r].error = "conflict"
        IN  /\ lost <=> (Opt(r).resolveConflicts /\ StrLess(holder, task[r].token))
            /\ (Opt(r).resolveConflicts /\ Opt(r).conflictPriority < OwnerPriority(holder))
                  => ~lost
            /\ (Opt(r).resolveConflicts /\ Opt(r).conflictPriority > OwnerPriority(holder))
                  => lost

\* C6 (step part): the rejection happens in the very attempt that found the
\* holder, without a sleep, and that attempt leaves the KV state as it was.
C6_Step ==
    \A r \in Req :
        (task'[r].error = "conflict" /\ task[r].error # "conflict") =>
            /\ task[r].pc = "script"
            /\ task'[r].pc \in {"rejected", "distCleanup"}
            /\ task'[r].totalWaitTime = task[r].totalWaitTime
            /\ kv' = kv

\* C6: conflict resolution is decided by the lexicographic order of the tokens,
\* the priority prefix dominates, the loser fails at once and the holder keeps
\* its lock.
C6_ConflictResolution == [](C6_State) /\ [][C6_Step]_vars

\* a writer with the lower base lost against a holder with a better priority
C6_Witness ==
    \E r \in Req : /\ SawHolder(r) /\ task[r].error = "conflict"
                   /\ StrLess(Opt(r).tokenBase, Opt(Owner(task[r].lastLockHolder.tok)).tokenBase)
                   /\ kv[task[r].shard][Opt(r).key].write = task[r].lastLockHolder.tok


\* two single-shard writers that compete for one key with resolveConflicts
Competitors(a, b) ==
    /\ a # b /\ Writer(a) /\ Writer(b) /\ SameKey(a, b)
    /\ Opt(a).resolveConflicts /\ Opt(b).resolveConflicts
    /\ Opt(a).distributed = "off" /\ Opt(b).distributed = "off"
    /\ task[a].pc # "idle" /\ task[b].pc # "idle"

Settled(r) == Received(r) \/ task[r].pc = "rejected"
NoThirdParty(a, b) == \A o \in Req \ {a, b} : SameKey(o, a) => task[o].pc = "idle"

\* C7 as stated: of two writers competing with resolveConflicts (and nobody
\* else on the key), exactly one receives the lock, the one whose token
\* compares lower, and the other is rejected for conflict resolution.
C7_Original ==
    \A a, b \in Req :
        (Competitors(a, b) /\ NoThirdParty(a, b) /\ Settled(a) /\ Settled(b)
           /\ StrLess(task[a].token, task[b].token))
        => (Received(a) /\ ~Received(b) /\ task[b].error = "conflict")

\* C7 as amended: the two never hold the lock at the same time (no lease
\* expired); the writer whose token compares lower is never rejected for
\* conflict resolution by the other; the writer whose token compares higher is
\* rejected for conflict resolution exactly when its attempt finds the slot
\* held by the lower token.  A higher token that acquires first keeps the lock
\* and the lower one waits for it.
C7_Amended ==
    \A a, b \in Req :
        (Competitors(a, b) /\ StrLess(task[a].token, task[b].token)) =>
            /\ ~leaseExpired => ~(isLocked(a) /\ isLocked(b))
            /\ ~(task[a].error = "conflict" /\ task[a].lastLockHolder.tok = task[b].token)
            /\ (SawHolder(b) /\ task[b].lastLockHolder.tok = task[a].token)
                  => task[b].error = "conflict"
            /\ task[b].error = "conflict" => task[b].lastLockHolder.tok = task[a].token

\* the higher token acquired first and released, then the lower one acquired
C7_Witness ==
    \E a, b \in Req :
        /\ Competitors(a, b) /\ NoThirdParty(a, b)
        /\ StrLess(task[a].token, task[b].token)
        /\ isLocked(a) /\ task[a].totalWaitTime > 0 /\ task[b].pc = "released"

\* ------------------------------------------- two lock sets, two keys
\* The calls of scenario NumScenarios: call 1 and call 3 belong to one lock set
\* (one tokenBase), call 2 and call 4 to the other; call 3 asks for the key
\* call 2 holds, call 4 for the key call 1 holds.
InitLockSets == Init /\ scenario = NumScenarios

NextLockSets ==
    \/ \E r \in Req : Start(r)
    \/ \E r \in Req : AttemptWrite(r)
    \/ \E r \in Req : WakeUp(r)
    \/ \E r \in Req : Release(r)

\* timers fire and script replies arrive: every started attempt is carried on
FairLockSets ==
    InitLockSets /\ [][NextLockSets]_vars
        /\ \A r \in Req : WF_vars(AttemptWrite(r)) /\ WF_vars(WakeUp(r))

Waiting(r) == task[r].pc \in {"script", "sleep"} /\ task[r].lastCode = 0
Crossed(x, y) ==
    /\ x # y /\ Opt(x).after # 0 /\ Opt(y).after # 0
    /\ SameKey(x, Opt(y).after) /\ SameKey(y, Opt(x).after)

BothWait(x, y) ==
    Waiting(x) /\ Waiting(y) /\ isLocked(Opt(x).after) /\ isLocked(Opt(y).after)
LoserGone(x, y) ==
    /\ Crossed(x, y) /\ task[y].error = "conflict" /\ Waiting(x)
    /\ task[Opt(y).after].pc = "released"

\* C8: two lock sets that each hold one key and each ask, with resolveConflicts,
\* for the key of the other never both wait: the request that loses is rejected
\* on its first attempt; and once the loser has released the key it held, the
\* request of the other, if still waiting, is eventually granted.
C8_DeadlockAvoidance ==
    /\ [](\A x, y \in Req : Crossed(x, y) =>
              /\ ~BothWait(x, y)
              /\ task[y].error = "conflict" => task[y].totalWaitTime = 0)
    /\ (LoserGone(3, 4) \/ LoserGone(4, 3)) ~> (Received(3) \/ Received(4))

\* the loser has released its key and the other set now holds both keys
C8_Witness ==
    \E x, y \in Req :
        /\ Crossed(x, y) /\ task[y].error = "conflict"
        /\ task[Opt(y).after].pc = "released"
        /\ isLocked(x) /\ isLocked(Opt(x).after) /\ task[x].totalWaitTime > 0

\* C9 as stated: readLockHeartbeat sets the TTL and returns 1 only for a member
\* of the read set and otherwise returns 3 and touches nothing;
\* writeLockHeartbeat sets the TTL and returns 1 only for the token in the
\* slot, returns 0 with the holder for another token and 3 for an empty slot,
\* touching nothing in those cases.
C9_Claim ==
    /\ last.script = "readLockHeartbeat" =>
          IF last.token \in last.pre.read
          THEN last.reply.code = 1 /\ last.post = [last.pre EXCEPT !.rttl = last.ttl]
          ELSE last.reply.code = 3 /\ last.post = last.pre
    /\ last.script = "writeLockHeartbeat" =>
          IF last.pre.write = last.token
          THEN last.reply.code = 1 /\ last.post = [last.pre EXCEPT !.wttl = last.ttl]
          ELSE IF last.pre.write # NoToken
          THEN last.reply.code = 0 /\ last.reply.tok = last.pre.write /\ last.post = last.pre
          ELSE last.reply.code = 3 /\ last.post = last.pre

\* C10: writeLockRelease deletes the slot only when it holds the given token and
\* otherwise changes nothing; readLockRelease removes only the given token from
\* the read set; neither touches the other key of the lock.
C10_ReleaseOwnTokenOnly ==
    /\ last.script = "writeLockRelease" =>
          /\ last.post.read = last.pre.read /\ last.post.rttl = last.pre.rttl
          /\ IF last.pre.write = last.token
             THEN last.post.write = NoToken
             ELSE last.post = last.pre
    /\ last.script = "readLockRelease" =>
          /\ last.post.write = last.pre.write /\ last.post.wttl = last.pre.wttl
          /\ last.post.read = last.pre.read \ {last.token}
          /\ last.reply.list = last.post.read

\* a handle whose slot was taken over after its lease expired releases
C10_Witness ==
    /\ last.script = "writeLockRelease"
    /\ last.pre.write \notin {NoToken, last.token}
    /\ last.reply.code = 0


\* ----------------------------------------------- the retry loop: properties
Missed(r) == task[r].lastCode \in {0, 2, -2}
GaveUp(r) == task[r].pc \in {"rejected", "distCleanup"}

\* C11: a readLock or writeLock call with maxWaitTime = 0 whose first attempt
\* misses (reply 0, reply 2, or 'Shard unavailable') is rejected with
\* RESOURCE_LOCKED at once: it never sleeps, accumulates no wait and makes no
\* second attempt.
C11_ZeroWaitFailsFast ==
    \A r \in Req : (Opt(r).op # "none" /\ Opt(r).maxWaitMs = 0) =>
        /\ task[r].pc # "sleep"
        /\ task[r].totalWaitTime = 0
        /\ task[r].attempts <= 1
        /\ Missed(r) => (GaveUp(r) /\ task[r].error = "locked" /\ task[r].attempts = 1)

\* a zero-wait writer was turned away after claiming the slot behind a reader
C11_Witness ==
    \E r \in Req : /\ Opt(r).maxWaitMs = 0 /\ Role(r) = "write"
                   /\ task[r].lastCode = 2 /\ task[r].error = "locked"
                   /\ task[r].pc = "rejected"


Settled12(r) == task[r].pc \in {"held", "releasing", "released", "rejected"}
SameInnerCall(r) == task'[r].token = task[r].token /\ task[r].pc # "idle"

\* a step of call r inside one acquisition: the accumulated wait never shrinks,
\* a sleep starts only while the accumulated wait is below maxWaitTime, and the
\* timeout rejection is decided by an attempt that misses at or above it
C12_Step ==
    \A r \in Req :
        /\ SameInnerCall(r) => task'[r].totalWaitTime >= task[r].totalWaitTime
        /\ (task'[r].pc = "sleep" /\ task[r].pc # "sleep")
              => /\ task[r].pc = "script"
                 /\ task[r].totalWaitTime < Opt(r).maxWaitMs
                 /\ task'[r].totalWaitTime = task[r].totalWaitTime + task[r].waitTime
        /\ (task'[r].error = "timeout" /\ task[r].error # "timeout")
              => (task[r].pc = "script" /\ Opt(r).maxWaitMs > 0
                  /\ task[r].totalWaitTime >= Opt(r).maxWaitMs)
        /\ (task[r].pc = "sleep" /\ task'[r].pc # "sleep" /\ task[r].resetWaitTime)
              => task'[r].waitTime = initialWaitTime

\* C12: every acquisition terminates: started, it ends holding the lock or
\* rejected; the timeout is the first miss at which the accumulated wait has
\* reached maxWaitTime, and a holder-change reset restores the wait step but
\* never the accumulated wait.  (A call never returns to "idle" and a
\* settled call stays settled, so "infinitely often every call is idle or
\* settled" says that each started call leads to its settlement.)
C12_Terminates ==
    /\ [][C12_Step]_vars
    /\ []<>(\A r \in Req : task[r].pc = "idle" \/ Settled12(r))

\* a writer timed out although the lock changed hands while it waited
C12_Witness ==
    \E r \in Req : /\ task[r].error = "timeout" /\ task[r].resets >= 1
                   /\ task[r].attempts >= 3 /\ task[r].pc = "rejected"
                   /\ task[r].totalWaitTime >= Opt(r).maxWaitMs


GiveUpErrors == {"timeout", "locked", "error"}
Abandoned(r) == GaveUp(r) /\ task[r].error \in GiveUpErrors /\ task[r].writeLockClaimed

\* the step in which a writer gives up with its claim in the slot schedules
\* writeLockRelease of its own token on the shard of the claim; the step that
\* performs it is that script call, and it leaves the slot without the token
C13_Step ==
    \A r \in Req :
        /\ (Abandoned(r)' /\ ~Abandoned(r))
              => (task'[r].cleanup = task[r].token /\ task'[r].cleanupShard = task[r].shard)
        /\ (task[r].cleanup # NoToken /\ task'[r].cleanup = NoToken)
              => /\ last'.script = "writeLockRelease" /\ last'.token = task[r].cleanup
                 /\ last'.shard = task[r].cleanupShard
                 /\ kv'[task[r].cleanupShard][Opt(r).key].write # task[r].cleanup

RetryOf(e, d) ==
    /\ Opt(e).op = "write" /\ Opt(e).maxWaitMs = 0 /\ ~Opt(e).faults
    /\ Opt(d).op = "write" /\ Opt(d).maxWaitMs = 0 /\ Opt(d).key = Opt(e).key
    /\ d \in Opt(e).afterDone
    /\ task[d].pc = "rejected" /\ task[d].lastCode = 2 /\ task[d].error = "locked"

\* every other call is a holder that released before e started, or never ran
ReadersGone(e, d) ==
    \A x \in Req \ {d, e} :
        \/ x \in Opt(e).afterDone /\ task[x].pc = "released"
        \/ task[x].pc = "idle"

\* C14: once the readers that made a zero-wait writeLock fail have released,
\* a new zero-wait writeLock on the key succeeds in every interleaving.
C14_Claim ==
    \A e, d \in Req : (RetryOf(e, d) /\ ReadersGone(e, d)) => task[e].pc # "rejected"


\* the KV entry of the lock r holds on shard sh is there and carries no TTL
HeldWithoutTtl(r, sh) ==
    LET c == kv[sh][Opt(r).key]
    IN  IF Role(r) = "read"
        THEN HandleToken(r, sh) \in c.read /\ c.rttl = -1
        ELSE c.write = HandleToken(r, sh) /\ c.wttl = -1

\* C15: a lock acquired with lockTimeout 0 has no TTL on its KV entry and is
\* held until it is released, whatever the other holders of the key do.
C15_Claim ==
    \A r \in Req : (Opt(r).lockTimeout = 0 /\ isLocked(r))
                      => \A sh \in HandleShards(r) : HeldWithoutTtl(r, sh)


\* the token of handle r is in the KV store on every shard of the handle
TokenInKv(r) ==
    \A sh \in HandleShards(r) :
        IF Role(r) = "read" THEN HandleToken(r, sh) \in kv[sh][Opt(r).key].read
        ELSE kv[sh][Opt(r).key].write = HandleToken(r, sh)

\* the token of handle r is nowhere in the KV store
TokenGone(r) ==
    \A sh \in HandleShards(r) :
        /\ HandleToken(r, sh) \notin kv[sh][Opt(r).key].read
        /\ kv[sh][Opt(r).key].write # HandleToken(r, sh)

\* a handle that was only ever obtained and released through its lock set
PlainHandle(r) == HasHandle(r) /\ task[r].upgrading = "no" /\ ~task[r].forced

\* asking the set again for a key whose handle is locked: the same handle
\* (same token), one more holder, no script call
C16_Step ==
    \A r \in Req :
        (isLocked(r) /\ task'[r].requests = task[r].requests + 1)
           => /\ isLocked(r)' /\ task'[r].token = task[r].token
              /\ task'[r].referenceCount = task[r].referenceCount + 1
              /\ kv' = kv /\ last' = last /\ tokenCtr' = tokenCtr

SetWriteLockDone(r) == Opt(r).setWrite /\ task[r].upgrading \in {"noop", "done"}

\* C17: LockSet.writeLock on a key whose handle is locked upgrades the handle
\* (nothing to do for a writer, single-shard or distributed) and then counts
\* one more holder: it never throws for a write handle, and the handle is a
\* write handle with one more reference, two after readLock then writeLock.
C17_Claim ==
    \A r \in Req : (Opt(r).setWrite /\ HasHandle(r) /\ ~task[r].forced) =>
        /\ Role(r) = "write" => task[r].thrown \notin {"TypeError"}
        /\ SetWriteLockDone(r) =>
              /\ Role(r) = "write"
              /\ task[r].referenceCount = task[r].requests - task[r].releases
              /\ task[r].requests >= 2
              /\ (task[r].requests = 2 /\ task[r].releases = 0)
                    => (isLocked(r) /\ task[r].referenceCount = 2)


\* forceRelease() of handle r has been called while it was locked and all
\* its release scripts have run
ForceReleased(r) == task[r].forced /\ task[r].pc = "released"

C18_Step ==
    \A r \in Req :
        (~task[r].forced /\ task'[r].forced)
           => /\ isLocked(r) /\ ~isLocked(r)'
              /\ task'[r].referenceCount = task[r].referenceCount
              /\ task'[r].releases = task[r].releases

SameHandle(r) ==
    [task'[r] EXCEPT !.upgrading = task[r].upgrading, !.thrown = task[r].thrown] = task[r]

\* the steps of upgrade(): begun on a locked read handle, completed by the
\* write acquisition, called on a write handle, called on a released handle
C19_Step ==
    \A r \in Req : Opt(r).upgrade # "none" =>
        /\ (task[r].upgrading = "no" /\ task'[r].upgrading = "yes")
              => /\ isLocked(r) /\ Role(r) = "read"
                 /\ last'.script = "readLockRelease" /\ last'.token = task[r].token
                 /\ task[r].token \notin kv'[task[r].shard][Opt(r).key].read
                 /\ task'[r].pc = "script" /\ Role(r)' = "write"
                 /\ task'[r].token # task[r].token /\ task'[r].oldToken = task[r].token
                 /\ task'[r].referenceCount = task[r].referenceCount
        /\ (task[r].upgrading = "yes" /\ task'[r].upgrading = "done")
              => /\ isLocked(r)' /\ Role(r)' = "write"
                 /\ task'[r].token = task[r].token
                 /\ kv'[task[r].shard][Opt(r).key].write = task[r].token
                 /\ kv'[task[r].shard][Opt(r).key].read = {}
                 /\ task'[r].referenceCount = task[r].referenceCount
        /\ (task[r].upgrading = "no" /\ task'[r].upgrading = "noop")
              => /\ isLocked(r) /\ Role(r) = "write" /\ SameHandle(r)
                 /\ task'[r].thrown = "none" /\ kv' = kv /\ last' = last
        /\ (task[r].thrown = "none" /\ task'[r].thrown = "released")
              => /\ ~isLocked(r) /\ SameHandle(r) /\ kv' = kv /\ last' = last

UpgradeFailed(r) == Opt(r).upgrade # "none" /\ task[r].upgrading = "failed"

\* the step in which upgrade() rejects: the error of the acquisition is the
\* one thrown, no script is called and the handle is not locked
C20_Step ==
    \A r \in Req :
        (Opt(r).upgrade # "none" /\ task[r].upgrading = "yes" /\ task'[r].upgrading = "failed")
           => /\ task[r].error \in {"timeout", "locked", "error"}
              /\ task'[r].thrown = task[r].error
              /\ ~isLocked(r)'
              /\ kv' = kv /\ last' = last
              /\ onError(r) = "stop" => SameHandle(r)

C27_CallTokens(r) == {task[r].locks[i] : i \in 1 .. Len(task[r].locks)} \cup {task[r].token}

\* the distributed writeLock of call r has been rejected
C27_DistRejected(r) ==
    /\ Opt(r).op = "write" /\ Opt(r).distributed = "on"
    /\ task[r].phase = "dist" /\ task[r].pc = "rejected"

\* C27: a distributed writeLock locks shard 0, 1, ... in this order; when a
\* shard's acquisition fails the locks already acquired are force-released
\* and the error is propagated, so that once the call is rejected none of
\* its tokens is in the key's write slot on any shard.
C27_Claim ==
    \A r \in Req :
        /\ (Opt(r).distributed = "on" /\ task[r].phase = "dist" /\ task[r].pc \in {"script", "sleep"})
              => task[r].shard = Len(task[r].locks)
        /\ C27_DistRejected(r) =>
              /\ task[r].error \in {"timeout", "locked", "error"}
              /\ \A sh \in Shards : kv[sh][Opt(r).key].write \notin C27_CallTokens(r)


\* C28: in every state of a handle referenceCount >= 0, and a locked handle
\* has referenceCount >= 1, whatever the order of release(), forceRelease(),
\* relock and upgrade() calls, a release() during an upgrade() included.
C28_Claim ==
    \A r \in Req : HasHandle(r) =>
        /\ task[r].referenceCount >= 0
        /\ isLocked(r) => task[r].referenceCount >= 1


\* the distributed write handle of call r with no forceRelease() under way
C29_DistHandleAtRest(r) ==
    HasHandle(r) /\ IsDistributedHandle(r) /\ task[r].pc \in {"held", "released"}

\* C29: a distributed write handle is marked released exactly when all its
\* per-shard locks have been released remotely, also after a release that
\* failed on one of the shards.
C29_Claim ==
    \A r \in Req : C29_DistHandleAtRest(r) => (~isLocked(r) <=> TokenGone(r))


\* the release script of handle r is rejected in this step
C30_ReleaseRejected(r) == task[r].releaseError = NoError /\ task'[r].releaseError # NoError

\* forceRelease() resolves in this step although its script was rejected
C30_Swallowed(r) == task'[r].thrown = task[r].thrown

\* C30 as stated: the error of a release script is swallowed when it is
\* 'Shard unavailable' or a redis_error, for read and write handles alike,
\* and propagates otherwise.
C30_Original ==
    [][\A r \in Req : C30_ReleaseRejected(r) =>
          (C30_Swallowed(r) <=> (\/ task'[r].releaseError.message = "Shard unavailable"
                             \/ task'[r].releaseError.code = "redis_error"))]_vars

\* C30 amended: during forceRelease of a write handle the error of the
\* release script is swallowed (the release resolves normally) when it is a
\* redis_error other than 'Shard unavailable'; a 'Shard unavailable' error
\* and any other error propagate to the caller, and for a read handle every
\* error propagates.
C30_Amended ==
    [][\A r \in Req : C30_ReleaseRejected(r) =>
          /\ ~isLocked(r)'
          /\ kv' = kv
          /\ C30_Swallowed(r) <=> (/\ Role(r) = "write"
                               /\ task'[r].releaseError.code = "redis_error"
                               /\ task'[r].releaseError.message # "Shard unavailable")
          /\ ~C30_Swallowed(r) => task'[r].thrown = task'[r].releaseError.code]_vars

\* the release of a write handle resolved although its script was rejected
\* with a redis_error, and the token is still in the write slot
C30_Witness ==
    \E r \in Req : /\ Role(r) = "write" /\ task[r].forced /\ task[r].pc = "released"
                   /\ task[r].releaseError = [message |-> "ERR", code |-> "redis_error"]
                   /\ task[r].thrown = "none"
                   /\ kv[task[r].shard][Opt(r).key].write = task[r].token


\* C21: LockSet.release() calls release() on its handles one at a time in
\* the reverse of their insertion order, for every set of key names, then
\* releases the dependent sets in reverse insertion order, and on success
\* leaves the lock map and the dependent list empty.
C21_Claim ==
    [][lockSet.pc = "release" =>
         /\ lockSet'.calls # lockSet.calls =>
              LET hs == lockSet.locks[lockSet.cur]
              IN  /\ lockSet'.calls = Append(lockSet.calls, hs[Len(lockSet.todo)])
                  /\ lockSet.awaiting # 0 => task[lockSet.awaiting].pc # "releasing"
         /\ lockSet'.cur \notin {lockSet.cur, 0} =>
              /\ lockSet'.cur = lockSet.dependentLockSets[Len(lockSet.todoSets)]
              /\ lockSet.todo = <<>>
         /\ lockSet'.pc = "released" =>
              /\ lockSet'.locks[1] = <<>>
              /\ \A i \in 1 .. Len(lockSet.dependentLockSets) :
                    lockSet'.locks[lockSet.dependentLockSets[i]] = <<>>
              /\ lockSet'.dependentLockSets = <<>>]_vars


\* lockSet.release() (not forceRelease) has resolved
C22_SetReleased == lockSet.pc = "released" /\ ~lockSet.force

\* C22 as stated: after lockSet.release() resolves no handle that was in the
\* set or in a dependent set is still locked, whatever its reference count
C22_Original ==
    C22_SetReleased => \A i \in 1 .. Len(lockSet.calls) :
                      ~isLocked(lockSet.calls[i]) /\ TokenGone(lockSet.calls[i])

\* C22 amended: lockSet.release() calls release() on every handle of the set
\* and of its dependent sets, which lowers the handle's reference count by
\* one (never below 0): a locked handle whose count was greater than 1 stays
\* locked, a locked handle whose count was at most 1 is unlocked by the call;
\* only lockSet.forceRelease() unlocks every handle whatever the reference
\* counts were.
C22_Amended ==
    [][\A r \in Req :
         (lockSet.pc = "release" /\ lockSet'.calls = Append(lockSet.calls, r)) =>
            IF lockSet.force
            THEN ~isLocked(r)' /\ task'[r].referenceCount = task[r].referenceCount
            ELSE /\ task'[r].referenceCount =
                      IF task[r].referenceCount > 0 THEN task[r].referenceCount - 1 ELSE 0
                 /\ isLocked(r)' <=> (isLocked(r) /\ task[r].referenceCount > 1)]_vars

\* release() of the set has resolved: one of its handles, asked for twice, is
\* still locked with one holder left, another one is unlocked and off the store
C22_Witness ==
    /\ C22_SetReleased
    /\ \E i, j \in 1 .. Len(lockSet.calls) :
         /\ isLocked(lockSet.calls[i]) /\ task[lockSet.calls[i]].referenceCount = 1
         /\ task[lockSet.calls[i]].requests = 2
         /\ ~isLocked(lockSet.calls[j]) /\ TokenGone(lockSet.calls[j])


\* the upgrade() that the set called on handle r was rejected
C23_Failed(r) == task[r].upgrading = "failed" \/ task[r].thrown = "released"

\* a step of lockSet.upgrade() as C23 describes it
C23_Step ==
    lockSet.pc = "upgrade" =>
      /\ (lockSet'.pc = "upgrade" /\ lockSet'.calls # lockSet.calls) =>
           lockSet'.calls = Append(lockSet.calls, lockSet.locks[1][Len(lockSet.todo)])
      /\ lockSet'.pc = "rejected" =>
           /\ lockSet.onErr = "stop"
           /\ C23_Failed(lockSet.awaiting)
           /\ lockSet'.error = task[lockSet.awaiting].thrown
           /\ lockSet'.locks = lockSet.locks
           /\ \A i \in 1 .. Len(lockSet.locks[1]) :
                 LET h == lockSet.locks[1][i]
                 IN  (\A j \in 1 .. Len(lockSet.calls) : lockSet.calls[j] # h) =>
                        task[h].upgrading = "no" /\ Role(h) = "read"
      /\ (lockSet.onErr = "ignore" /\ lockSet.awaiting # 0 /\ lockSet'.awaiting = 0) =>
           /\ lockSet'.pc = "upgrade"
           /\ lockSet'.upgradeFails =
                 IF C23_Failed(lockSet.awaiting)
                 THEN Append(lockSet.upgradeFails, lockSet.awaiting)
                 ELSE lockSet.upgradeFails
      /\ lockSet'.pc = "resolved" =>
           /\ Len(lockSet.calls) = Len(lockSet.locks[1])
           /\ lockSet.onErr # "ignore" => lockSet'.upgradeFails = <<>>

\* C23: LockSet.upgrade visits the handles in reverse insertion order; with
\* onError 'stop' it stops at the first failure and rethrows, the handles not
\* yet visited staying un-upgraded in the set; with 'ignore' it goes on and
\* resolves with the handles that failed, in visiting order.
C23_Claim == [][C23_Step]_vars


\* C24: LockSet.upgrade with onError 'release': when the rejection is
\* delivered the set holds no locks and no handle that was in it is locked.
C24_Claim ==
    (lockSet.pc = "rejected" /\ lockSet.onErr = "release") =>
       /\ lockSet.locks[1] = <<>>
       /\ lockSet.calls # <<>>
       /\ \A i \in 1 .. Len(lockSet.calls) : ~isLocked(lockSet.calls[i])


\* the key of call r is one that the loop of _rwLockSet has to skip: the set
\* holds it, or an earlier key of the same call is the same
C25_Skipped(r) ==
    \/ \E i \in 1 .. Len(lockSet.locks[1]) : Opt(lockSet.locks[1][i]).key = Opt(r).key
    \/ \E q \in Req : q < r /\ Opt(q).batch /\ Opt(q).key = Opt(r).key

\* a step of readLockSet / writeLockSet(keys, {lockSet}) as C25 describes it
C25_Step ==
    /\ \A r \in Req :
         (Opt(r).batch /\ task[r].pc = "idle" /\ task'[r].pc # "idle") =>
            /\ ~C25_Skipped(r)
            /\ \A q \in Req : (q < r /\ Opt(q).batch) =>
                  IF C25_Skipped(q) THEN task[q].pc = "idle" ELSE isLocked(q)
    /\ (lockSet.pc = "lockSet" /\ lockSet'.pc = "idle") =>
         /\ \A r \in Req : Opt(r).batch =>
               IF C25_Skipped(r) THEN task[r].pc = "idle"
               ELSE isLocked(r) /\ \E i \in 1 .. Len(lockSet'.locks[1]) :
                                      lockSet'.locks[1][i] = r
         /\ SubSeq(lockSet'.locks[1], 1, Len(lockSet.locks[1])) = lockSet.locks[1]
    /\ lockSet.pc \in {"lockSet", "lockSetCatch"} =>
         /\ lockSet'.pc # "idle" => lockSet'.locks = lockSet.locks
         /\ \A i \in 1 .. Len(lockSet.locks[1]) : isLocked(lockSet.locks[1][i])'
    /\ (lockSet.pc = "lockSetCatch" /\ lockSet'.pc = "rejected") =>
         /\ \A r \in Req : Opt(r).batch =>
               /\ ~isLocked(r)
               /\ task[r].pc # "idle" => TokenGone(r)
         /\ \E r \in Req : /\ Opt(r).batch /\ task[r].pc = "rejected"
                           /\ lockSet'.error = task[r].error

C26_Settled(r) == Opt(r).wrap /\ task[r].wrapped # "no" /\ task[r].pc # "releasing"

C31_Step(r) ==
    /\ task'[r].totalWaitTime >= task[r].totalWaitTime
    /\ task[r].waitTime \in 5 .. 1000
    /\ (task[r].pc # "sleep" /\ task'[r].pc = "sleep") =>
          /\ task'[r].totalWaitTime = task[r].totalWaitTime + task[r].waitTime
          /\ task'[r].waitTime = task[r].waitTime
          /\ task[r].totalWaitTime = 0 => task[r].waitTime = 5
    /\ (task[r].pc = "sleep" /\ task'[r].pc # "sleep") =>
          /\ task'[r].totalWaitTime = task[r].totalWaitTime
          /\ IF task[r].resetWaitTime
             THEN task'[r].waitTime = 5
             ELSE \E rnd \in 0 .. 2 :
                    task'[r].waitTime = IF 3 * task[r].waitTime + rnd > 1000 THEN 1000
                                        ELSE 3 * task[r].waitTime + rnd
    /\ task'[r].resets > task[r].resets =>
          task'[r].pc = "sleep" /\ task'[r].resetWaitTime

C32_AutoOnly ==
    \A r \in Req : task[r].pc # "idle" =>
        \/ Reader(r) /\ UsesFlag(r)
        \/ Writer(r) /\ Opt(r).distributed = "auto"

\* C32: with distributed readers that keep the flag and writers that use
\* distributed 'auto', and no lease or flag expiring, a reader and a writer
\* never hold the same key at the same time.
C32_Claim ==
    (C32_AutoOnly /\ ~leaseExpired) =>
        \A r, w \in Req : (Reader(r) /\ Writer(w) /\ SameKey(r, w)) =>
                             ~(isLocked(r) /\ isLocked(w))

\* C33: in the step in which a writeLock attempt with resolveConflicts is
\* rejected for losing conflict resolution, no shard's write slot of the key
\* holds that attempt's token, also when the attempt had claimed the slot
\* before; the attempt asks for no release, and the slot does not come to
\* hold the token later either
C33_Lost(r) == Opt(r).resolveConflicts /\ task[r].error = "conflict"

C33_NoClaim(r) == \A sh \in Shards : kv[sh][Opt(r).key].write # task[r].token

C33_Step(r) ==
    (~C33_Lost(r) /\ C33_Lost(r)') =>
        /\ C33_NoClaim(r)'
        /\ task'[r].cleanup = task[r].cleanup
        /\ task'[r].token = task[r].token

C33_NoStaleClaim ==
    [][\A r \in Req : C33_Step(r) /\ (C33_Lost(r) => C33_NoClaim(r)')]_vars

\* a writer that had claimed the slot, was displaced after its lease ran out
\* and then lost conflict resolution
C33_Witness ==
    \E r \in Req : /\ C33_Lost(r)
                    /\ task[r].writeLockClaimed
                    /\ leaseExpired
                    /\ kv[task[r].shard][Opt(r).key].write # NoToken

\* C34: while the write slot of a key is set no reader is added to the key's
\* read set, and a writer that has claimed the slot and polls while the slot
\* still holds its token and the read set is empty is granted the lock at
\* that poll (a poll being a script call that the store answers)
C34_Polls(r) ==
    /\ Writer(r)
    /\ task[r].pc = "script"
    /\ task[r].writeLockClaimed
    /\ task'[r].attempts = task[r].attempts + 1
    /\ task'[r].lastCode >= 0
    /\ Cell(r).write = task[r].token

C34_Step(r) ==
    (C34_Polls(r) /\ Cell(r).read = {}) =>
        /\ task'[r].lastCode = 1
        /\ task[r].phase = "single" => isLocked(r)'
        /\ Cell(r)'.write = task[r].token

C34_NoNewReader ==
    \A sh \in Shards, k \in Keys :
        kv[sh][k].write # NoToken => kv'[sh][k].read \subseteq kv[sh][k].read

C34_NotStarved == [][C34_NoNewReader /\ \A r \in Req : C34_Step(r)]_vars

\* a writer that claimed behind one reader holds the lock after that reader
\* released, while another reader was turned away by the claim
C34_Witness ==
    \E w, a, b \in Req :
        /\ Writer(w) /\ isLocked(w) /\ task[w].writeLockClaimed /\ ~leaseExpired
        /\ Reader(a) /\ task[a].pc = "released" /\ task[w].lastLockHolder # NullHolder
        /\ Reader(b) /\ task[b].attempts > 0 /\ task[b].lastCode = 0
        /\ task[b].lastLockHolder = TokHolder(task[w].token)

\* the write acquisition of upgrade() on handle r is under way: the read token
\* is released and the write token not yet acquired
C35_InGap(r) == Opt(r).upgrade # "none" /\ task[r].upgrading = "yes"

C36_Lease(ttl) == IF ttl = -1 THEN 1000000 ELSE IF ttl = -2 THEN 0 ELSE ttl

\* C36: after a readLock or readLockHeartbeat script call the TTL of the key's
\* read set is at least what it was before the call
C36_Claim ==
    last.script \in {"readLock", "readLockHeartbeat"} =>
        C36_Lease(last.post.rttl) >= C36_Lease(last.pre.rttl)

\* the calls whose handles lock set ls has in its map
C37_Stored(ls) == {lockSet.locks[ls][i] : i \in 1 .. Len(lockSet.locks[ls])}

\* no operation of the lock set is under way
C37_AtRest == lockSet.pc \in {"idle", "resolved", "rejected"}

\* C37: while no operation of the lock set is under way every handle in the
\* map of a lock set is locked (so that _relock and upgrade of a stored handle
\* cannot fail because the handle is released)
C37_Claim ==
    C37_AtRest => \A ls \in SetIds : \A r \in C37_Stored(ls) : isLocked(r)

\* the LockSet.readLock call r was rejected by addLock
C38_Rejected(r) ==
    /\ Opt(r).lockSet \in SetIds /\ ~Opt(r).batch
    /\ task[r].upgrading = "no"
    /\ task[r].thrown = "locked"

\* C38: no LockSet.readLock call for a key the set did not hold when the call
\* was made is rejected by addLock, and so none leaves its read token in the
\* read set with a handle that the set does not have
C38_Claim ==
    \A r \in Req :
        ~(C38_Rejected(r) /\ isLocked(r) /\ task[r].token \in Cell(r).read
          /\ r \notin C37_Stored(Opt(r).lockSet))

\* C39: when the fn of readLockWrap / writeLockWrap has ended, however it
\* ended, release() has been called on the handle exactly once
C39_Claim ==
    [][\A r \in Req :
          (Opt(r).wrap /\ task[r].wrapped = "no" /\ task'[r].wrapped # "no") =>
              task'[r].releases = task[r].releases + 1]_vars

\* the handle of call r was acquired by a readLockSet / writeLockSet that was
\* called on lock set 1 without options.lockSet
C40_ByLockSetCall(r) == Opt(r).batch /\ batchSet # 1 /\ task[r].requests > 0

\* C40: a handle that readLockSet / writeLockSet called on a lock set acquired
\* is in the map of one lock set only, and release() is never called on it
\* when its referenceCount is 0
C40_Claim ==
    [][\A r \in Req :
          C40_ByLockSetCall(r) =>
              /\ Cardinality({ls \in SetIds : r \in C37_Stored(ls)}) <= 1
              /\ task'[r].releases > task[r].releases => task[r].referenceCount > 0]_vars
====
